---- MODULE Spec2Model ----
(***************************************************************************)
(* Model of the Alpaca MCP tool adapter (src/server.py).                   *)
(*                                                                         *)
(* main() constructs the server: the credentials are read, the two SDK     *)
(* clients are built, the tools are registered and the transport is         *)
(* started.  From then on the server holds no state between invocations:    *)
(* the hosting framework dispatches a tool call, the tool body runs         *)
(* (validation, request construction, SDK call, normalisation) and one      *)
(* envelope is returned, or an exception leaves the tool.  One action per   *)
(* tool models the whole tool body; its inputs (arguments and the behaviour *)
(* of the brokerage SDK during the call) are drawn from small sets.  The    *)
(* variables pc .. result record the last invocation: the tool, its         *)
(* arguments, the SDK calls it made and what it handed back to the          *)
(* framework; the others are the fields of the server object.               *)
(*                                                                         *)
(* Python values are tagged records so that None, ints, floats, bools,      *)
(* strings and enum wrappers stay distinct; a text is the sequence of its   *)
(* code points and a number is held as the text Python prints for it.       *)
(***************************************************************************)
EXTENDS Integers, Sequences, FiniteSets, TLC

VARIABLES pc, tool, args, calls, result,
          api_key, secret_key, trading_client, data_client, app_tools,
          self_attrs, startup, exit_code, inflight, alpaca_paper, paper

\* the fields of the server object (self.api_key .. self.app, and in
\* self_attrs the <<name, value>> pairs of every other attribute set on it:
\* __init__ sets none), the order in which its parts were built, the exit
\* status of the process, and the value of ALPACA_PAPER in the environment
\* the process was started in
server == <<api_key, secret_key, trading_client, data_client, app_tools,
            self_attrs, startup, exit_code, alpaca_paper, paper>>

\* inflight holds the tool calls the framework has accepted and not yet
\* answered, one per slot, when it dispatches calls concurrently
vars == <<pc, tool, args, calls, result, server, inflight>>

----------------------------------------------------------------------------
(* Bounds of the model *)

\* numeric arguments range over -1 .. MaxNum
MaxNum == 1
\* leg lists of place_multi_leg_option_order have at most MaxLegs legs
MaxLegs == 2
\* the framework has at most MaxInflight tool calls in flight at a time
MaxInflight == 2

----------------------------------------------------------------------------
(* Text.  A text is the sequence of the code points of a Python str.  The   *)
(* literals of this module are written as strings and turned into texts by *)
(* T.  The case mappings and character classes are those of the            *)
(* interpreter's Unicode database (version 14.0.0, CPython 3.11).           *)

\* the code points of the characters a literal of this module is made of:
\* the printable ASCII ones, here in the order of their codes from 32 on, the
\* grave accent (96) left out
Code ==
    [c \in {SubSeq(" !\"#$%&'()*+,-./0123456789:;<=>?@ABCDEFGHIJKLMNOPQRSTUVWXYZ[\\]^_abcdefghijklmnopqrstuvwxyz{|}~", i, i) : i \in 1..94} |->
        CHOOSE n \in (32..126) \ {96} :
            SubSeq(" !\"#$%&'()*+,-./0123456789:;<=>?@ABCDEFGHIJKLMNOPQRSTUVWXYZ[\\]^_abcdefghijklmnopqrstuvwxyz{|}~", n - 31 - (n \div 97), n - 31 - (n \div 97)) = c]

\* the text a literal writes
T(lit) == [i \in 1..Len(lit) |-> Code[SubSeq(lit, i, i)]] \o <<>>

\* the least and the greatest member of a set of integers
Least(S) == CHOOSE i \in S : \A j \in S : i <= j
Greatest(S) == CHOOSE i \in S : \A j \in S : i >= j

\* the concatenation of parts[lo], ..., parts[hi]
RECURSIVE Flat(_, _, _)
Flat(parts, lo, hi) ==
    IF lo > hi THEN <<>>
    ELSE IF lo = hi THEN parts[lo]
    ELSE Flat(parts, lo, (lo + hi) \div 2) \o Flat(parts, (lo + hi) \div 2 + 1, hi)

\* the Unicode database of the interpreter, as far as str.lower, str.upper,
\* str.isspace, repr, int and float consult it
UnicodeData ==
    [
    \* the characters with a lowercase form, four numbers a range: first,
    \* last, step and form, for every step-th character from first to last
    \* and the form of the first; the others lie as far from theirs
     lower |->
        <<
          65, 90, 1, 97, 192, 214, 1, 224, 216, 222, 1, 248,
          256, 302, 2, 257, 306, 310, 2, 307, 313, 327, 2, 314,
          330, 374, 2, 331, 376, 376, 1, 255, 377, 381, 2, 378,
          385, 385, 1, 595, 386, 388, 2, 387, 390, 390, 1, 596,
          391, 391, 1, 392, 393, 394, 1, 598, 395, 395, 1, 396,
          398, 398, 1, 477, 399, 399, 1, 601, 400, 400, 1, 603,
          401, 401, 1, 402, 403, 403, 1, 608, 404, 404, 1, 611,
          406, 406, 1, 617, 407, 407, 1, 616, 408, 408, 1, 409,
          412, 412, 1, 623, 413, 413, 1, 626, 415, 415, 1, 629,
          416, 420, 2, 417, 422, 422, 1, 640, 423, 423, 1, 424,
          425, 425, 1, 643, 428, 428, 1, 429, 430, 430, 1, 648,
          431, 431, 1, 432, 433, 434, 1, 650, 435, 437, 2, 436,
          439, 439, 1, 658, 440, 440, 1, 441, 444, 444, 1, 445,
          452, 452, 1, 454, 453, 453, 1, 454, 455, 455, 1, 457,
          456, 456, 1, 457, 458, 458, 1, 460, 459, 475, 2, 460,
          478, 494, 2, 479, 497, 497, 1, 499, 498, 500, 2, 499,
          502, 502, 1, 405, 503, 503, 1, 447, 504, 542, 2, 505,
          544, 544, 1, 414, 546, 562, 2, 547, 570, 570, 1, 11365,
          571, 571, 1, 572, 573, 573, 1, 410, 574, 574, 1, 11366,
          577, 577, 1, 578, 579, 579, 1, 384, 580, 580, 1, 649,
          581, 581, 1, 652, 582, 590, 2, 583, 880, 882, 2, 881,
          886, 886, 1, 887, 895, 895, 1, 1011, 902, 902, 1, 940,
          904, 906, 1, 941, 908, 908, 1, 972, 910, 911, 1, 973,
          913, 929, 1, 945, 932, 939, 1, 964, 975, 975, 1, 983,
          984, 1006, 2, 985, 1012, 1012, 1, 952, 1015, 1015, 1, 1016,
          1017, 1017, 1, 1010, 1018, 1018, 1, 1019, 1021, 1023, 1, 891,
          1024, 1039, 1, 1104, 1040, 1071, 1, 1072, 1120, 1152, 2, 1121,
          1162, 1214, 2, 1163, 1216, 1216, 1, 1231, 1217, 1229, 2, 1218,
          1232, 1326, 2, 1233, 1329, 1366, 1, 1377, 4256, 4293, 1, 11520,
          4295, 4295, 1, 11559, 4301, 4301, 1, 11565, 5024, 5103, 1, 43888,
          5104, 5109, 1, 5112, 7312, 7354, 1, 4304, 7357, 7359, 1, 4349,
          7680, 7828, 2, 7681, 7838, 7838, 1, 223, 7840, 7934, 2, 7841,
          7944, 7951, 1, 7936, 7960, 7965, 1, 7952, 7976, 7983, 1, 7968,
          7992, 7999, 1, 7984, 8008, 8013, 1, 8000, 8025, 8031, 2, 8017,
          8040, 8047, 1, 8032, 8072, 8079, 1, 8064, 8088, 8095, 1, 8080,
          8104, 8111, 1, 8096, 8120, 8121, 1, 8112, 8122, 8123, 1, 8048,
          8124, 8124, 1, 8115, 8136, 8139, 1, 8050, 8140, 8140, 1, 8131,
          8152, 8153, 1, 8144, 8154, 8155, 1, 8054, 8168, 8169, 1, 8160,
          8170, 8171, 1, 8058, 8172, 8172, 1, 8165, 8184, 8185, 1, 8056,
          8186, 8187, 1, 8060, 8188, 8188, 1, 8179, 8486, 8486, 1, 969,
          8490, 8490, 1, 107, 8491, 8491, 1, 229, 8498, 8498, 1, 8526,
          8544, 8559, 1, 8560, 8579, 8579, 1, 8580, 9398, 9423, 1, 9424,
          11264, 11311, 1, 11312, 11360, 11360, 1, 11361,
          11362, 11362, 1, 619, 11363, 11363, 1, 7549, 11364, 11364, 1, 637,
          11367, 11371, 2, 11368, 11373, 11373, 1, 593, 11374, 11374, 1, 625,
          11375, 11375, 1, 592, 11376, 11376, 1, 594, 11378, 11378, 1, 11379,
          11381, 11381, 1, 11382, 11390, 11391, 1, 575,
          11392, 11490, 2, 11393, 11499, 11501, 2, 11500,
          11506, 11506, 1, 11507, 42560, 42604, 2, 42561,
          42624, 42650, 2, 42625, 42786, 42798, 2, 42787,
          42802, 42862, 2, 42803, 42873, 42875, 2, 42874,
          42877, 42877, 1, 7545, 42878, 42886, 2, 42879,
          42891, 42891, 1, 42892, 42893, 42893, 1, 613,
          42896, 42898, 2, 42897, 42902, 42920, 2, 42903,
          42922, 42922, 1, 614, 42923, 42923, 1, 604, 42924, 42924, 1, 609,
          42925, 42925, 1, 620, 42926, 42926, 1, 618, 42928, 42928, 1, 670,
          42929, 42929, 1, 647, 42930, 42930, 1, 669, 42931, 42931, 1, 43859,
          42932, 42946, 2, 42933, 42948, 42948, 1, 42900,
          42949, 42949, 1, 642, 42950, 42950, 1, 7566,
          42951, 42953, 2, 42952, 42960, 42960, 1, 42961,
          42966, 42968, 2, 42967, 42997, 42997, 1, 42998,
          65313, 65338, 1, 65345, 66560, 66599, 1, 66600,
          66736, 66771, 1, 66776, 66928, 66938, 1, 66967,
          66940, 66954, 1, 66979, 66956, 66962, 1, 66995,
          66964, 66965, 1, 67003, 68736, 68786, 1, 68800,
          71840, 71871, 1, 71872, 93760, 93791, 1, 93792,
          125184, 125217, 1, 125218
        >>,
    \* the same for the characters with an uppercase form of one character
     upper |->
        <<
          97, 122, 1, 65, 181, 181, 1, 924, 224, 246, 1, 192,
          248, 254, 1, 216, 255, 255, 1, 376, 257, 303, 2, 256,
          305, 305, 1, 73, 307, 311, 2, 306, 314, 328, 2, 313,
          331, 375, 2, 330, 378, 382, 2, 377, 383, 383, 1, 83,
          384, 384, 1, 579, 387, 389, 2, 386, 392, 392, 1, 391,
          396, 396, 1, 395, 402, 402, 1, 401, 405, 405, 1, 502,
          409, 409, 1, 408, 410, 410, 1, 573, 414, 414, 1, 544,
          417, 421, 2, 416, 424, 424, 1, 423, 429, 429, 1, 428,
          432, 432, 1, 431, 436, 438, 2, 435, 441, 441, 1, 440,
          445, 445, 1, 444, 447, 447, 1, 503, 453, 453, 1, 452,
          454, 454, 1, 452, 456, 456, 1, 455, 457, 457, 1, 455,
          459, 459, 1, 458, 460, 460, 1, 458, 462, 476, 2, 461,
          477, 477, 1, 398, 479, 495, 2, 478, 498, 498, 1, 497,
          499, 499, 1, 497, 501, 501, 1, 500, 505, 543, 2, 504,
          547, 563, 2, 546, 572, 572, 1, 571, 575, 576, 1, 11390,
          578, 578, 1, 577, 583, 591, 2, 582, 592, 592, 1, 11375,
          593, 593, 1, 11373, 594, 594, 1, 11376, 595, 595, 1, 385,
          596, 596, 1, 390, 598, 599, 1, 393, 601, 601, 1, 399,
          603, 603, 1, 400, 604, 604, 1, 42923, 608, 608, 1, 403,
          609, 609, 1, 42924, 611, 611, 1, 404, 613, 613, 1, 42893,
          614, 614, 1, 42922, 616, 616, 1, 407, 617, 617, 1, 406,
          618, 618, 1, 42926, 619, 619, 1, 11362, 620, 620, 1, 42925,
          623, 623, 1, 412, 625, 625, 1, 11374, 626, 626, 1, 413,
          629, 629, 1, 415, 637, 637, 1, 11364, 640, 640, 1, 422,
          642, 642, 1, 42949, 643, 643, 1, 425, 647, 647, 1, 42929,
          648, 648, 1, 430, 649, 649, 1, 580, 650, 651, 1, 433,
          652, 652, 1, 581, 658, 658, 1, 439, 669, 669, 1, 42930,
          670, 670, 1, 42928, 837, 837, 1, 921, 881, 883, 2, 880,
          887, 887, 1, 886, 891, 893, 1, 1021, 940, 940, 1, 902,
          941, 943, 1, 904, 945, 961, 1, 913, 962, 962, 1, 931,
          963, 971, 1, 931, 972, 972, 1, 908, 973, 974, 1, 910,
          976, 976, 1, 914, 977, 977, 1, 920, 981, 981, 1, 934,
          982, 982, 1, 928, 983, 983, 1, 975, 985, 1007, 2, 984,
          1008, 1008, 1, 922, 1009, 1009, 1, 929, 1010, 1010, 1, 1017,
          1011, 1011, 1, 895, 1013, 1013, 1, 917, 1016, 1016, 1, 1015,
          1019, 1019, 1, 1018, 1072, 1103, 1, 1040, 1104, 1119, 1, 1024,
          1121, 1153, 2, 1120, 1163, 1215, 2, 1162, 1218, 1230, 2, 1217,
          1231, 1231, 1, 1216, 1233, 1327, 2, 1232, 1377, 1414, 1, 1329,
          4304, 4346, 1, 7312, 4349, 4351, 1, 7357, 5112, 5117, 1, 5104,
          7296, 7296, 1, 1042, 7297, 7297, 1, 1044, 7298, 7298, 1, 1054,
          7299, 7300, 1, 1057, 7301, 7301, 1, 1058, 7302, 7302, 1, 1066,
          7303, 7303, 1, 1122, 7304, 7304, 1, 42570, 7545, 7545, 1, 42877,
          7549, 7549, 1, 11363, 7566, 7566, 1, 42950, 7681, 7829, 2, 7680,
          7835, 7835, 1, 7776, 7841, 7935, 2, 7840, 7936, 7943, 1, 7944,
          7952, 7957, 1, 7960, 7968, 7975, 1, 7976, 7984, 7991, 1, 7992,
          8000, 8005, 1, 8008, 8017, 8023, 2, 8025, 8032, 8039, 1, 8040,
          8048, 8049, 1, 8122, 8050, 8053, 1, 8136, 8054, 8055, 1, 8154,
          8056, 8057, 1, 8184, 8058, 8059, 1, 8170, 8060, 8061, 1, 8186,
          8112, 8113, 1, 8120, 8126, 8126, 1, 921, 8144, 8145, 1, 8152,
          8160, 8161, 1, 8168, 8165, 8165, 1, 8172, 8526, 8526, 1, 8498,
          8560, 8575, 1, 8544, 8580, 8580, 1, 8579, 9424, 9449, 1, 9398,
          11312, 11359, 1, 11264, 11361, 11361, 1, 11360,
          11365, 11365, 1, 570, 11366, 11366, 1, 574, 11368, 11372, 2, 11367,
          11379, 11379, 1, 11378, 11382, 11382, 1, 11381,
          11393, 11491, 2, 11392, 11500, 11502, 2, 11499,
          11507, 11507, 1, 11506, 11520, 11557, 1, 4256,
          11559, 11559, 1, 4295, 11565, 11565, 1, 4301,
          42561, 42605, 2, 42560, 42625, 42651, 2, 42624,
          42787, 42799, 2, 42786, 42803, 42863, 2, 42802,
          42874, 42876, 2, 42873, 42879, 42887, 2, 42878,
          42892, 42892, 1, 42891, 42897, 42899, 2, 42896,
          42900, 42900, 1, 42948, 42903, 42921, 2, 42902,
          42933, 42947, 2, 42932, 42952, 42954, 2, 42951,
          42961, 42961, 1, 42960, 42967, 42969, 2, 42966,
          42998, 42998, 1, 42997, 43859, 43859, 1, 42931,
          43888, 43967, 1, 5024, 65345, 65370, 1, 65313,
          66600, 66639, 1, 66560, 66776, 66811, 1, 66736,
          66967, 66977, 1, 66928, 66979, 66993, 1, 66940,
          66995, 67001, 1, 66956, 67003, 67004, 1, 66964,
          68800, 68850, 1, 68736, 71872, 71903, 1, 71840,
          93792, 93823, 1, 93760, 125218, 125251, 1, 125184
        >>,
    \* the characters whose uppercase form is two or three characters, four
    \* numbers each: the character and its form, 0 after a form of two
     special |->
        <<
          223, 83, 83, 0, 329, 700, 78, 0, 496, 74, 780, 0,
          912, 921, 776, 769, 944, 933, 776, 769, 1415, 1333, 1362, 0,
          7830, 72, 817, 0, 7831, 84, 776, 0, 7832, 87, 778, 0,
          7833, 89, 778, 0, 7834, 65, 702, 0, 8016, 933, 787, 0,
          8018, 933, 787, 768, 8020, 933, 787, 769, 8022, 933, 787, 834,
          8064, 7944, 921, 0, 8065, 7945, 921, 0, 8066, 7946, 921, 0,
          8067, 7947, 921, 0, 8068, 7948, 921, 0, 8069, 7949, 921, 0,
          8070, 7950, 921, 0, 8071, 7951, 921, 0, 8072, 7944, 921, 0,
          8073, 7945, 921, 0, 8074, 7946, 921, 0, 8075, 7947, 921, 0,
          8076, 7948, 921, 0, 8077, 7949, 921, 0, 8078, 7950, 921, 0,
          8079, 7951, 921, 0, 8080, 7976, 921, 0, 8081, 7977, 921, 0,
          8082, 7978, 921, 0, 8083, 7979, 921, 0, 8084, 7980, 921, 0,
          8085, 7981, 921, 0, 8086, 7982, 921, 0, 8087, 7983, 921, 0,
          8088, 7976, 921, 0, 8089, 7977, 921, 0, 8090, 7978, 921, 0,
          8091, 7979, 921, 0, 8092, 7980, 921, 0, 8093, 7981, 921, 0,
          8094, 7982, 921, 0, 8095, 7983, 921, 0, 8096, 8040, 921, 0,
          8097, 8041, 921, 0, 8098, 8042, 921, 0, 8099, 8043, 921, 0,
          8100, 8044, 921, 0, 8101, 8045, 921, 0, 8102, 8046, 921, 0,
          8103, 8047, 921, 0, 8104, 8040, 921, 0, 8105, 8041, 921, 0,
          8106, 8042, 921, 0, 8107, 8043, 921, 0, 8108, 8044, 921, 0,
          8109, 8045, 921, 0, 8110, 8046, 921, 0, 8111, 8047, 921, 0,
          8114, 8122, 921, 0, 8115, 913, 921, 0, 8116, 902, 921, 0,
          8118, 913, 834, 0, 8119, 913, 834, 921, 8124, 913, 921, 0,
          8130, 8138, 921, 0, 8131, 919, 921, 0, 8132, 905, 921, 0,
          8134, 919, 834, 0, 8135, 919, 834, 921, 8140, 919, 921, 0,
          8146, 921, 776, 768, 8147, 921, 776, 769, 8150, 921, 834, 0,
          8151, 921, 776, 834, 8162, 933, 776, 768, 8163, 933, 776, 769,
          8164, 929, 787, 0, 8166, 933, 834, 0, 8167, 933, 776, 834,
          8178, 8186, 921, 0, 8179, 937, 921, 0, 8180, 911, 921, 0,
          8182, 937, 834, 0, 8183, 937, 834, 921, 8188, 937, 921, 0,
          64256, 70, 70, 0, 64257, 70, 73, 0, 64258, 70, 76, 0,
          64259, 70, 70, 73, 64260, 70, 70, 76, 64261, 83, 84, 0,
          64262, 83, 84, 0, 64275, 1348, 1350, 0, 64276, 1348, 1333, 0,
          64277, 1348, 1339, 0, 64278, 1358, 1350, 0, 64279, 1348, 1341, 0
        >>,
    \* the case-ignorable characters, two numbers a range: first, last
     ignorable |->
        <<
          39, 39, 46, 46, 58, 58, 94, 94, 96, 96, 168, 168, 173, 173,
          175, 175, 180, 180, 183, 184, 688, 879, 884, 885, 890, 890,
          900, 901, 903, 903, 1155, 1161, 1369, 1369, 1375, 1375, 1425, 1469,
          1471, 1471, 1473, 1474, 1476, 1477, 1479, 1479, 1524, 1524,
          1536, 1541, 1552, 1562, 1564, 1564, 1600, 1600, 1611, 1631,
          1648, 1648, 1750, 1757, 1759, 1768, 1770, 1773, 1807, 1807,
          1809, 1809, 1840, 1866, 1958, 1968, 2027, 2037, 2042, 2042,
          2045, 2045, 2070, 2093, 2137, 2139, 2184, 2184, 2192, 2193,
          2200, 2207, 2249, 2306, 2362, 2362, 2364, 2364, 2369, 2376,
          2381, 2381, 2385, 2391, 2402, 2403, 2417, 2417, 2433, 2433,
          2492, 2492, 2497, 2500, 2509, 2509, 2530, 2531, 2558, 2558,
          2561, 2562, 2620, 2620, 2625, 2626, 2631, 2632, 2635, 2637,
          2641, 2641, 2672, 2673, 2677, 2677, 2689, 2690, 2748, 2748,
          2753, 2757, 2759, 2760, 2765, 2765, 2786, 2787, 2810, 2815,
          2817, 2817, 2876, 2876, 2879, 2879, 2881, 2884, 2893, 2893,
          2901, 2902, 2914, 2915, 2946, 2946, 3008, 3008, 3021, 3021,
          3072, 3072, 3076, 3076, 3132, 3132, 3134, 3136, 3142, 3144,
          3146, 3149, 3157, 3158, 3170, 3171, 3201, 3201, 3260, 3260,
          3263, 3263, 3270, 3270, 3276, 3277, 3298, 3299, 3328, 3329,
          3387, 3388, 3393, 3396, 3405, 3405, 3426, 3427, 3457, 3457,
          3530, 3530, 3538, 3540, 3542, 3542, 3633, 3633, 3636, 3642,
          3654, 3662, 3761, 3761, 3764, 3772, 3782, 3782, 3784, 3789,
          3864, 3865, 3893, 3893, 3895, 3895, 3897, 3897, 3953, 3966,
          3968, 3972, 3974, 3975, 3981, 3991, 3993, 4028, 4038, 4038,
          4141, 4144, 4146, 4151, 4153, 4154, 4157, 4158, 4184, 4185,
          4190, 4192, 4209, 4212, 4226, 4226, 4229, 4230, 4237, 4237,
          4253, 4253, 4348, 4348, 4957, 4959, 5906, 5908, 5938, 5939,
          5970, 5971, 6002, 6003, 6068, 6069, 6071, 6077, 6086, 6086,
          6089, 6099, 6103, 6103, 6109, 6109, 6155, 6159, 6211, 6211,
          6277, 6278, 6313, 6313, 6432, 6434, 6439, 6440, 6450, 6450,
          6457, 6459, 6679, 6680, 6683, 6683, 6742, 6742, 6744, 6750,
          6752, 6752, 6754, 6754, 6757, 6764, 6771, 6780, 6783, 6783,
          6823, 6823, 6832, 6862, 6912, 6915, 6964, 6964, 6966, 6970,
          6972, 6972, 6978, 6978, 7019, 7027, 7040, 7041, 7074, 7077,
          7080, 7081, 7083, 7085, 7142, 7142, 7144, 7145, 7149, 7149,
          7151, 7153, 7212, 7219, 7222, 7223, 7288, 7293, 7376, 7378,
          7380, 7392, 7394, 7400, 7405, 7405, 7412, 7412, 7416, 7417,
          7468, 7530, 7544, 7544, 7579, 7679, 8125, 8125, 8127, 8129,
          8141, 8143, 8157, 8159, 8173, 8175, 8189, 8190, 8203, 8207,
          8216, 8217, 8228, 8228, 8231, 8231, 8234, 8238, 8288, 8292,
          8294, 8303, 8305, 8305, 8319, 8319, 8336, 8348, 8400, 8432,
          11388, 11389, 11503, 11505, 11631, 11631, 11647, 11647,
          11744, 11775, 11823, 11823, 12293, 12293, 12330, 12333,
          12337, 12341, 12347, 12347, 12441, 12446, 12540, 12542,
          40981, 40981, 42232, 42237, 42508, 42508, 42607, 42610,
          42612, 42621, 42623, 42623, 42652, 42655, 42736, 42737,
          42752, 42785, 42864, 42864, 42888, 42890, 42994, 42996,
          43000, 43001, 43010, 43010, 43014, 43014, 43019, 43019,
          43045, 43046, 43052, 43052, 43204, 43205, 43232, 43249,
          43263, 43263, 43302, 43309, 43335, 43345, 43392, 43394,
          43443, 43443, 43446, 43449, 43452, 43453, 43471, 43471,
          43493, 43494, 43561, 43566, 43569, 43570, 43573, 43574,
          43587, 43587, 43596, 43596, 43632, 43632, 43644, 43644,
          43696, 43696, 43698, 43700, 43703, 43704, 43710, 43711,
          43713, 43713, 43741, 43741, 43756, 43757, 43763, 43764,
          43766, 43766, 43867, 43871, 43881, 43883, 44005, 44005,
          44008, 44008, 44013, 44013, 64286, 64286, 64434, 64450,
          65024, 65039, 65043, 65043, 65056, 65071, 65106, 65106,
          65109, 65109, 65279, 65279, 65287, 65287, 65294, 65294,
          65306, 65306, 65342, 65342, 65344, 65344, 65392, 65392,
          65438, 65439, 65507, 65507, 65529, 65531, 66045, 66045,
          66272, 66272, 66422, 66426, 67456, 67461, 67463, 67504,
          67506, 67514, 68097, 68099, 68101, 68102, 68108, 68111,
          68152, 68154, 68159, 68159, 68325, 68326, 68900, 68903,
          69291, 69292, 69446, 69456, 69506, 69509, 69633, 69633,
          69688, 69702, 69744, 69744, 69747, 69748, 69759, 69761,
          69811, 69814, 69817, 69818, 69821, 69821, 69826, 69826,
          69837, 69837, 69888, 69890, 69927, 69931, 69933, 69940,
          70003, 70003, 70016, 70017, 70070, 70078, 70089, 70092,
          70095, 70095, 70191, 70193, 70196, 70196, 70198, 70199,
          70206, 70206, 70367, 70367, 70371, 70378, 70400, 70401,
          70459, 70460, 70464, 70464, 70502, 70508, 70512, 70516,
          70712, 70719, 70722, 70724, 70726, 70726, 70750, 70750,
          70835, 70840, 70842, 70842, 70847, 70848, 70850, 70851,
          71090, 71093, 71100, 71101, 71103, 71104, 71132, 71133,
          71219, 71226, 71229, 71229, 71231, 71232, 71339, 71339,
          71341, 71341, 71344, 71349, 71351, 71351, 71453, 71455,
          71458, 71461, 71463, 71467, 71727, 71735, 71737, 71738,
          71995, 71996, 71998, 71998, 72003, 72003, 72148, 72151,
          72154, 72155, 72160, 72160, 72193, 72202, 72243, 72248,
          72251, 72254, 72263, 72263, 72273, 72278, 72281, 72283,
          72330, 72342, 72344, 72345, 72752, 72758, 72760, 72765,
          72767, 72767, 72850, 72871, 72874, 72880, 72882, 72883,
          72885, 72886, 73009, 73014, 73018, 73018, 73020, 73021,
          73023, 73029, 73031, 73031, 73104, 73105, 73109, 73109,
          73111, 73111, 73459, 73460, 78896, 78904, 92912, 92916,
          92976, 92982, 92992, 92995, 94031, 94031, 94095, 94111,
          94176, 94177, 94179, 94180, 110576, 110579, 110581, 110587,
          110589, 110590, 113821, 113822, 113824, 113827, 118528, 118573,
          118576, 118598, 119143, 119145, 119155, 119170, 119173, 119179,
          119210, 119213, 119362, 119364, 121344, 121398, 121403, 121452,
          121461, 121461, 121476, 121476, 121499, 121503, 121505, 121519,
          122880, 122886, 122888, 122904, 122907, 122913, 122915, 122916,
          122918, 122922, 123184, 123197, 123566, 123566, 123628, 123631,
          125136, 125142, 125252, 125259, 127995, 127999, 917505, 917505,
          917536, 917631, 917760, 917999
        >>,
    \* the ranges of the cased characters
     cased |->
        <<
          65, 90, 97, 122, 170, 170, 181, 181, 186, 186, 192, 214, 216, 246,
          248, 442, 444, 447, 452, 659, 661, 687, 880, 883, 886, 887,
          891, 893, 895, 895, 902, 902, 904, 906, 908, 908, 910, 929,
          931, 1013, 1015, 1153, 1162, 1327, 1329, 1366, 1376, 1416,
          4256, 4293, 4295, 4295, 4301, 4301, 4304, 4346, 4349, 4351,
          5024, 5109, 5112, 5117, 7296, 7304, 7312, 7354, 7357, 7359,
          7424, 7467, 7531, 7543, 7545, 7578, 7680, 7957, 7960, 7965,
          7968, 8005, 8008, 8013, 8016, 8023, 8025, 8025, 8027, 8027,
          8029, 8029, 8031, 8061, 8064, 8116, 8118, 8124, 8126, 8126,
          8130, 8132, 8134, 8140, 8144, 8147, 8150, 8155, 8160, 8172,
          8178, 8180, 8182, 8188, 8450, 8450, 8455, 8455, 8458, 8467,
          8469, 8469, 8473, 8477, 8484, 8484, 8486, 8486, 8488, 8488,
          8490, 8493, 8495, 8500, 8505, 8505, 8508, 8511, 8517, 8521,
          8526, 8526, 8544, 8575, 8579, 8580, 9398, 9449, 11264, 11387,
          11390, 11492, 11499, 11502, 11506, 11507, 11520, 11557,
          11559, 11559, 11565, 11565, 42560, 42605, 42624, 42651,
          42786, 42863, 42865, 42887, 42891, 42894, 42896, 42954,
          42960, 42961, 42963, 42963, 42965, 42969, 42997, 42998,
          43002, 43002, 43824, 43866, 43872, 43880, 43888, 43967,
          64256, 64262, 64275, 64279, 65313, 65338, 65345, 65370,
          66560, 66639, 66736, 66771, 66776, 66811, 66928, 66938,
          66940, 66954, 66956, 66962, 66964, 66965, 66967, 66977,
          66979, 66993, 66995, 67001, 67003, 67004, 68736, 68786,
          68800, 68850, 71840, 71903, 93760, 93823, 119808, 119892,
          119894, 119964, 119966, 119967, 119970, 119970, 119973, 119974,
          119977, 119980, 119982, 119993, 119995, 119995, 119997, 120003,
          120005, 120069, 120071, 120074, 120077, 120084, 120086, 120092,
          120094, 120121, 120123, 120126, 120128, 120132, 120134, 120134,
          120138, 120144, 120146, 120485, 120488, 120512, 120514, 120538,
          120540, 120570, 120572, 120596, 120598, 120628, 120630, 120654,
          120656, 120686, 120688, 120712, 120714, 120744, 120746, 120770,
          120772, 120779, 122624, 122633, 122635, 122654, 125184, 125251,
          127280, 127305, 127312, 127337, 127344, 127369
        >>,
    \* the ranges of the characters repr() escapes (beyond U+007F)
     unprintable |->
        <<
          0, 31, 127, 160, 173, 173, 888, 889, 896, 899, 907, 907, 909, 909,
          930, 930, 1328, 1328, 1367, 1368, 1419, 1420, 1424, 1424,
          1480, 1487, 1515, 1518, 1525, 1541, 1564, 1564, 1757, 1757,
          1806, 1807, 1867, 1868, 1970, 1983, 2043, 2044, 2094, 2095,
          2111, 2111, 2140, 2141, 2143, 2143, 2155, 2159, 2191, 2199,
          2274, 2274, 2436, 2436, 2445, 2446, 2449, 2450, 2473, 2473,
          2481, 2481, 2483, 2485, 2490, 2491, 2501, 2502, 2505, 2506,
          2511, 2518, 2520, 2523, 2526, 2526, 2532, 2533, 2559, 2560,
          2564, 2564, 2571, 2574, 2577, 2578, 2601, 2601, 2609, 2609,
          2612, 2612, 2615, 2615, 2618, 2619, 2621, 2621, 2627, 2630,
          2633, 2634, 2638, 2640, 2642, 2648, 2653, 2653, 2655, 2661,
          2679, 2688, 2692, 2692, 2702, 2702, 2706, 2706, 2729, 2729,
          2737, 2737, 2740, 2740, 2746, 2747, 2758, 2758, 2762, 2762,
          2766, 2767, 2769, 2783, 2788, 2789, 2802, 2808, 2816, 2816,
          2820, 2820, 2829, 2830, 2833, 2834, 2857, 2857, 2865, 2865,
          2868, 2868, 2874, 2875, 2885, 2886, 2889, 2890, 2894, 2900,
          2904, 2907, 2910, 2910, 2916, 2917, 2936, 2945, 2948, 2948,
          2955, 2957, 2961, 2961, 2966, 2968, 2971, 2971, 2973, 2973,
          2976, 2978, 2981, 2983, 2987, 2989, 3002, 3005, 3011, 3013,
          3017, 3017, 3022, 3023, 3025, 3030, 3032, 3045, 3067, 3071,
          3085, 3085, 3089, 3089, 3113, 3113, 3130, 3131, 3141, 3141,
          3145, 3145, 3150, 3156, 3159, 3159, 3163, 3164, 3166, 3167,
          3172, 3173, 3184, 3190, 3213, 3213, 3217, 3217, 3241, 3241,
          3252, 3252, 3258, 3259, 3269, 3269, 3273, 3273, 3278, 3284,
          3287, 3292, 3295, 3295, 3300, 3301, 3312, 3312, 3315, 3327,
          3341, 3341, 3345, 3345, 3397, 3397, 3401, 3401, 3408, 3411,
          3428, 3429, 3456, 3456, 3460, 3460, 3479, 3481, 3506, 3506,
          3516, 3516, 3518, 3519, 3527, 3529, 3531, 3534, 3541, 3541,
          3543, 3543, 3552, 3557, 3568, 3569, 3573, 3584, 3643, 3646,
          3676, 3712, 3715, 3715, 3717, 3717, 3723, 3723, 3748, 3748,
          3750, 3750, 3774, 3775, 3781, 3781, 3783, 3783, 3790, 3791,
          3802, 3803, 3808, 3839, 3912, 3912, 3949, 3952, 3992, 3992,
          4029, 4029, 4045, 4045, 4059, 4095, 4294, 4294, 4296, 4300,
          4302, 4303, 4681, 4681, 4686, 4687, 4695, 4695, 4697, 4697,
          4702, 4703, 4745, 4745, 4750, 4751, 4785, 4785, 4790, 4791,
          4799, 4799, 4801, 4801, 4806, 4807, 4823, 4823, 4881, 4881,
          4886, 4887, 4955, 4956, 4989, 4991, 5018, 5023, 5110, 5111,
          5118, 5119, 5760, 5760, 5789, 5791, 5881, 5887, 5910, 5918,
          5943, 5951, 5972, 5983, 5997, 5997, 6001, 6001, 6004, 6015,
          6110, 6111, 6122, 6127, 6138, 6143, 6158, 6158, 6170, 6175,
          6265, 6271, 6315, 6319, 6390, 6399, 6431, 6431, 6444, 6447,
          6460, 6463, 6465, 6467, 6510, 6511, 6517, 6527, 6572, 6575,
          6602, 6607, 6619, 6621, 6684, 6685, 6751, 6751, 6781, 6782,
          6794, 6799, 6810, 6815, 6830, 6831, 6863, 6911, 6989, 6991,
          7039, 7039, 7156, 7163, 7224, 7226, 7242, 7244, 7305, 7311,
          7355, 7356, 7368, 7375, 7419, 7423, 7958, 7959, 7966, 7967,
          8006, 8007, 8014, 8015, 8024, 8024, 8026, 8026, 8028, 8028,
          8030, 8030, 8062, 8063, 8117, 8117, 8133, 8133, 8148, 8149,
          8156, 8156, 8176, 8177, 8181, 8181, 8191, 8207, 8232, 8239,
          8287, 8303, 8306, 8307, 8335, 8335, 8349, 8351, 8385, 8399,
          8433, 8447, 8588, 8591, 9255, 9279, 9291, 9311, 11124, 11125,
          11158, 11158, 11508, 11512, 11558, 11558, 11560, 11564,
          11566, 11567, 11624, 11630, 11633, 11646, 11671, 11679,
          11687, 11687, 11695, 11695, 11703, 11703, 11711, 11711,
          11719, 11719, 11727, 11727, 11735, 11735, 11743, 11743,
          11870, 11903, 11930, 11930, 12020, 12031, 12246, 12271,
          12284, 12288, 12352, 12352, 12439, 12440, 12544, 12548,
          12592, 12592, 12687, 12687, 12772, 12783, 12831, 12831,
          42125, 42127, 42183, 42191, 42540, 42559, 42744, 42751,
          42955, 42959, 42962, 42962, 42964, 42964, 42970, 42993,
          43053, 43055, 43066, 43071, 43128, 43135, 43206, 43213,
          43226, 43231, 43348, 43358, 43389, 43391, 43470, 43470,
          43482, 43485, 43519, 43519, 43575, 43583, 43598, 43599,
          43610, 43611, 43715, 43738, 43767, 43776, 43783, 43784,
          43791, 43792, 43799, 43807, 43815, 43815, 43823, 43823,
          43884, 43887, 44014, 44015, 44026, 44031, 55204, 55215,
          55239, 55242, 55292, 63743, 64110, 64111, 64218, 64255,
          64263, 64274, 64280, 64284, 64311, 64311, 64317, 64317,
          64319, 64319, 64322, 64322, 64325, 64325, 64451, 64466,
          64912, 64913, 64968, 64974, 64976, 65007, 65050, 65055,
          65107, 65107, 65127, 65127, 65132, 65135, 65141, 65141,
          65277, 65280, 65471, 65473, 65480, 65481, 65488, 65489,
          65496, 65497, 65501, 65503, 65511, 65511, 65519, 65531,
          65534, 65535, 65548, 65548, 65575, 65575, 65595, 65595,
          65598, 65598, 65614, 65615, 65630, 65663, 65787, 65791,
          65795, 65798, 65844, 65846, 65935, 65935, 65949, 65951,
          65953, 65999, 66046, 66175, 66205, 66207, 66257, 66271,
          66300, 66303, 66340, 66348, 66379, 66383, 66427, 66431,
          66462, 66462, 66500, 66503, 66518, 66559, 66718, 66719,
          66730, 66735, 66772, 66775, 66812, 66815, 66856, 66863,
          66916, 66926, 66939, 66939, 66955, 66955, 66963, 66963,
          66966, 66966, 66978, 66978, 66994, 66994, 67002, 67002,
          67005, 67071, 67383, 67391, 67414, 67423, 67432, 67455,
          67462, 67462, 67505, 67505, 67515, 67583, 67590, 67591,
          67593, 67593, 67638, 67638, 67641, 67643, 67645, 67646,
          67670, 67670, 67743, 67750, 67760, 67807, 67827, 67827,
          67830, 67834, 67868, 67870, 67898, 67902, 67904, 67967,
          68024, 68027, 68048, 68049, 68100, 68100, 68103, 68107,
          68116, 68116, 68120, 68120, 68150, 68151, 68155, 68158,
          68169, 68175, 68185, 68191, 68256, 68287, 68327, 68330,
          68343, 68351, 68406, 68408, 68438, 68439, 68467, 68471,
          68498, 68504, 68509, 68520, 68528, 68607, 68681, 68735,
          68787, 68799, 68851, 68857, 68904, 68911, 68922, 69215,
          69247, 69247, 69290, 69290, 69294, 69295, 69298, 69375,
          69416, 69423, 69466, 69487, 69514, 69551, 69580, 69599,
          69623, 69631, 69710, 69713, 69750, 69758, 69821, 69821,
          69827, 69839, 69865, 69871, 69882, 69887, 69941, 69941,
          69960, 69967, 70007, 70015, 70112, 70112, 70133, 70143,
          70162, 70162, 70207, 70271, 70279, 70279, 70281, 70281,
          70286, 70286, 70302, 70302, 70314, 70319, 70379, 70383,
          70394, 70399, 70404, 70404, 70413, 70414, 70417, 70418,
          70441, 70441, 70449, 70449, 70452, 70452, 70458, 70458,
          70469, 70470, 70473, 70474, 70478, 70479, 70481, 70486,
          70488, 70492, 70500, 70501, 70509, 70511, 70517, 70655,
          70748, 70748, 70754, 70783, 70856, 70863, 70874, 71039,
          71094, 71095, 71134, 71167, 71237, 71247, 71258, 71263,
          71277, 71295, 71354, 71359, 71370, 71423, 71451, 71452,
          71468, 71471, 71495, 71679, 71740, 71839, 71923, 71934,
          71943, 71944, 71946, 71947, 71956, 71956, 71959, 71959,
          71990, 71990, 71993, 71994, 72007, 72015, 72026, 72095,
          72104, 72105, 72152, 72153, 72165, 72191, 72264, 72271,
          72355, 72367, 72441, 72703, 72713, 72713, 72759, 72759,
          72774, 72783, 72813, 72815, 72848, 72849, 72872, 72872,
          72887, 72959, 72967, 72967, 72970, 72970, 73015, 73017,
          73019, 73019, 73022, 73022, 73032, 73039, 73050, 73055,
          73062, 73062, 73065, 73065, 73103, 73103, 73106, 73106,
          73113, 73119, 73130, 73439, 73465, 73647, 73649, 73663,
          73714, 73726, 74650, 74751, 74863, 74863, 74869, 74879,
          75076, 77711, 77811, 77823, 78895, 82943, 83527, 92159,
          92729, 92735, 92767, 92767, 92778, 92781, 92863, 92863,
          92874, 92879, 92910, 92911, 92918, 92927, 92998, 93007,
          93018, 93018, 93026, 93026, 93048, 93052, 93072, 93759,
          93851, 93951, 94027, 94030, 94088, 94094, 94112, 94175,
          94181, 94191, 94194, 94207, 100344, 100351, 101590, 101631,
          101641, 110575, 110580, 110580, 110588, 110588, 110591, 110591,
          110883, 110927, 110931, 110947, 110952, 110959, 111356, 113663,
          113771, 113775, 113789, 113791, 113801, 113807, 113818, 113819,
          113824, 118527, 118574, 118575, 118599, 118607, 118724, 118783,
          119030, 119039, 119079, 119080, 119155, 119162, 119275, 119295,
          119366, 119519, 119540, 119551, 119639, 119647, 119673, 119807,
          119893, 119893, 119965, 119965, 119968, 119969, 119971, 119972,
          119975, 119976, 119981, 119981, 119994, 119994, 119996, 119996,
          120004, 120004, 120070, 120070, 120075, 120076, 120085, 120085,
          120093, 120093, 120122, 120122, 120127, 120127, 120133, 120133,
          120135, 120137, 120145, 120145, 120486, 120487, 120780, 120781,
          121484, 121498, 121504, 121504, 121520, 122623, 122655, 122879,
          122887, 122887, 122905, 122906, 122914, 122914, 122917, 122917,
          122923, 123135, 123181, 123183, 123198, 123199, 123210, 123213,
          123216, 123535, 123567, 123583, 123642, 123646, 123648, 124895,
          124903, 124903, 124908, 124908, 124911, 124911, 124927, 124927,
          125125, 125126, 125143, 125183, 125260, 125263, 125274, 125277,
          125280, 126064, 126133, 126208, 126270, 126463, 126468, 126468,
          126496, 126496, 126499, 126499, 126501, 126502, 126504, 126504,
          126515, 126515, 126520, 126520, 126522, 126522, 126524, 126529,
          126531, 126534, 126536, 126536, 126538, 126538, 126540, 126540,
          126544, 126544, 126547, 126547, 126549, 126550, 126552, 126552,
          126554, 126554, 126556, 126556, 126558, 126558, 126560, 126560,
          126563, 126563, 126565, 126566, 126571, 126571, 126579, 126579,
          126584, 126584, 126589, 126589, 126591, 126591, 126602, 126602,
          126620, 126624, 126628, 126628, 126634, 126634, 126652, 126703,
          126706, 126975, 127020, 127023, 127124, 127135, 127151, 127152,
          127168, 127168, 127184, 127184, 127222, 127231, 127406, 127461,
          127491, 127503, 127548, 127551, 127561, 127567, 127570, 127583,
          127590, 127743, 128728, 128732, 128749, 128751, 128765, 128767,
          128884, 128895, 128985, 128991, 129004, 129007, 129009, 129023,
          129036, 129039, 129096, 129103, 129114, 129119, 129160, 129167,
          129198, 129199, 129202, 129279, 129620, 129631, 129646, 129647,
          129653, 129655, 129661, 129663, 129671, 129679, 129709, 129711,
          129723, 129727, 129734, 129743, 129754, 129759, 129768, 129775,
          129783, 129791, 129939, 129939, 129995, 130031, 130042, 131071,
          173792, 173823, 177977, 177983, 178206, 178207, 183970, 183983,
          191457, 194559, 195102, 196607, 201547, 917759, 918000, 1114111
        >>,
    \* the zero of every run of decimal digits 0..9
     digits |->
        <<
          48, 1632, 1776, 1984, 2406, 2534, 2662, 2790, 2918, 3046, 3174,
          3302, 3430, 3558, 3664, 3792, 3872, 4160, 4240, 6112, 6160, 6470,
          6608, 6784, 6800, 6992, 7088, 7232, 7248, 42528, 43216, 43264,
          43472, 43504, 43600, 44016, 65296, 66720, 68912, 69734, 69872,
          69942, 70096, 70384, 70736, 70864, 71248, 71360, 71472, 71904,
          72016, 72784, 73040, 73120, 92768, 92864, 93008, 120782, 120792,
          120802, 120812, 120822, 123200, 123632, 125264, 130032
        >>,
    \* the white space
     spaces |->
        {9, 10, 11, 12, 13, 28, 29, 30, 31, 32, 133, 160, 5760, 8192, 8193, 8194, 8195, 8196, 8197, 8198, 8199, 8200, 8201, 8202, 8232, 8233, 8239, 8287, 12288}
    ]

\* whether c lies in one of the ranges first, last of a table
InRanges(table, c) ==
    \E i \in 1..(Len(table) \div 2) : table[2 * i - 1] <= c /\ c <= table[2 * i]

\* the form of c under a table of first, last, step, form: c itself when no
\* range holds it
Shifted(table, c) ==
    LET Image(hits) ==
            IF hits = {} THEN c
            ELSE c + table[4 * Least(hits)] - table[4 * Least(hits) - 3]
    IN Image({i \in 1..(Len(table) \div 4) :
                 /\ table[4 * i - 3] <= c /\ c <= table[4 * i - 2]
                 /\ (c - table[4 * i - 3]) % table[4 * i - 1] = 0})

\* str(i) of an int between -2^31 and 2^31
IntText(i) ==
    LET \* the n digits of the natural number m
        Wide(m, n) == [j \in 1..n |-> 48 + ((m \div (10 ^ (n - j))) % 10)] \o <<>>
    IN (IF i < 0 THEN <<45>> ELSE <<>>)
       \o Wide(IF i < 0 THEN 0 - i ELSE i,
               1 + Cardinality({j \in 1..9 : i >= 10 ^ j \/ 0 - i >= 10 ^ j}))

\* s.lower()
LowerText(s) ==
    LET \* the character at j is not case-ignorable, is cased
        Counts(j) == ~InRanges(UnicodeData.ignorable, s[j])
        Cased(j) == InRanges(UnicodeData.cased, s[j])
        \* a capital sigma ends a word: a cased character stands before it and
        \* none after it, the case-ignorable ones not counted
        FinalSigma(before, after) ==
            /\ before # {}
            /\ Cased(Greatest(before))
            /\ after = {} \/ ~Cased(Least(after))
    IN Flat([i \in 1..Len(s) |->
                CASE s[i] < 128 -> <<IF 65 <= s[i] /\ s[i] <= 90 THEN s[i] + 32 ELSE s[i]>>
                  [] s[i] = 931 ->
                       <<IF FinalSigma({j \in 1..(i - 1) : Counts(j)},
                                       {j \in (i + 1)..Len(s) : Counts(j)})
                         THEN 962 ELSE 963>>
                  [] s[i] = 304 -> <<105, 775>>
                  [] OTHER -> <<Shifted(UnicodeData.lower, s[i])>>],
            1, Len(s))

\* m in s
Contains(s, m) ==
    \E i \in 0..(Len(s) - Len(m)) : SubSeq(s, i + 1, i + Len(m)) = m

\* c.upper() of one character; some characters become two or three
UpperChar(c) ==
    LET \* the places of c in the table of the longer forms
        Special(table) == {i \in 1..(Len(table) \div 4) : table[4 * i - 3] = c}
        Form(table, i) ==
            SubSeq(table, 4 * i - 2, IF table[4 * i] = 0 THEN 4 * i - 1 ELSE 4 * i)
    IN CASE c < 128 -> <<IF 97 <= c /\ c <= 122 THEN c - 32 ELSE c>>
         [] c >= 128 /\ Special(UnicodeData.special) # {} ->
              Form(UnicodeData.special, Least(Special(UnicodeData.special)))
         [] OTHER -> <<Shifted(UnicodeData.upper, c)>>

\* s.upper()
UpperText(s) == Flat([i \in 1..Len(s) |-> UpperChar(s[i])], 1, Len(s))

\* c.isspace()
IsSpace(c) == c \in UnicodeData.spaces

\* s.strip()
StripText(s) ==
    LET Solid(kept) ==
            IF kept = {} THEN <<>> ELSE SubSeq(s, Least(kept), Greatest(kept))
    IN Solid({i \in 1..Len(s) : ~IsSpace(s[i])})

\* s.split(","): the items between commas, in order
SplitComma(s) ==
    LET Items(ends) ==
            LET Item(e) ==
                    SubSeq(s, (IF \E b \in ends : b < e
                               THEN Greatest({b \in ends : b < e}) ELSE 0) + 1,
                           e - 1)
                Ordered(e) == Cardinality({b \in ends : b <= e})
            IN [k \in 1..Cardinality(ends) |->
                   Item(CHOOSE e \in ends : Ordered(e) = k)]
    IN Items({i \in 1..Len(s) : s[i] = 44} \cup {Len(s) + 1})

----------------------------------------------------------------------------
(* Python values: a tag t and a text s.  An int holds its decimal text, a   *)
(* float the text repr() shows of it ("1.5", "1e-05", "inf", "nan"), a bool *)
(* its name, a str its characters, an enum member its value.               *)

None == [t |-> "none", s |-> <<>>]
\* a key absent from a dict
Missing == [t |-> "missing", s |-> <<>>]
\* an int
Num(n) == [t |-> "int", s |-> IntText(n)]
\* the float of an integral value below 10^16
Flt(n) == [t |-> "float", s |-> IntText(n) \o <<46, 48>>]
\* True and False
Bool(b) == [t |-> "bool", s |-> IF b THEN <<84, 114, 117, 101>> ELSE <<70, 97, 108, 115, 101>>]
\* a str, from a literal and from its characters
Str(lit) == [t |-> "str", s |-> T(lit)]
Text(cs) == [t |-> "str", s |-> cs]
\* a member of a str-mixin enum of alpaca.trading.enums (OrderSide.BUY,
\* OrderStatus.ACCEPTED, ...) with its .value
Enum(lit) == [t |-> "enum", s |-> T(lit)]

IsNone(v) == v.t = "none"

\* the outcome of evaluating an expression: a value, or a raised exception
Val(v) == [st |-> "ok", val |-> v, msg |-> <<>>]
Exc(m) == [st |-> "exc", val |-> None, msg |-> m]

\* the first raised exception among results evaluated in order, else the last
RECURSIVE FirstExc(_)
FirstExc(rs) ==
    IF Len(rs) = 1 \/ Head(rs).st = "exc" THEN Head(rs) ELSE FirstExc(Tail(rs))

\* type(v).__name__; an enum member is named after its class
TypeName(v) ==
    LET \* the members of the enums, each value before the name of its class;
        \* the last line stands for every other value
        Members ==
            <<"buy", "OrderSide", "sell", "OrderSide",
              "market", "OrderType", "limit", "OrderType", "stop", "OrderType",
              "stop_limit", "OrderType", "trailing_stop", "OrderType",
              "call", "ContractType", "put", "ContractType",
              "american", "ExerciseStyle", "european", "ExerciseStyle",
              "long", "PositionSide", "short", "PositionSide",
              "buy_to_open", "PositionIntent", "buy_to_close", "PositionIntent",
              "sell_to_open", "PositionIntent", "sell_to_close", "PositionIntent",
              "day", "TimeInForce", "gtc", "TimeInForce", "opg", "TimeInForce",
              "cls", "TimeInForce", "ioc", "TimeInForce", "fok", "TimeInForce",
              "us_equity", "AssetClass", "us_option", "AssetClass",
              "crypto", "AssetClass",
              "simple", "OrderClass", "mleg", "OrderClass", "bracket", "OrderClass",
              "oco", "OrderClass", "oto", "OrderClass",
              "active", "AssetStatus", "inactive", "AssetStatus",
              "", "OrderStatus">>
    IN T(CASE v.t = "none" -> "NoneType"
           [] v.t = "int" -> "int"
           [] v.t = "bool" -> "bool"
           [] v.t = "float" -> "float"
           [] v.t = "enum" ->
                Members[2 * Least({i \in 1..(Len(Members) \div 2) :
                                      T(Members[2 * i - 1]) \in {v.s, <<>>}})]
           [] v.t = "datetime" -> "datetime.datetime"
           [] OTHER -> "str")

\* str(v), also what an f-string shows of v: an enum member shows its class
\* and name ("OrderSide.BUY")
TextOf(v) ==
    CASE v.t \in {"none", "missing"} -> T("None")
      [] v.t = "enum" -> TypeName(v) \o <<46>> \o UpperText(v.s)
      \* a datetime shows a space where isoformat() writes the T
      [] v.t = "datetime" ->
           [i \in 1..Len(v.s) |-> IF i = 11 THEN 32 ELSE v.s[i]] \o <<>>
      [] OTHER -> v.s

\* repr(v), as error messages quote it.  A text stands between single quotes
\* (double quotes when it holds a single quote and no double quote), with
\* backslash, the quote and the characters that do not print escaped
Repr(v) ==
    LET \* the last n hexadecimal digits of c
        Hex(c, n) ==
            [i \in 1..n |->
                (IF (c \div (16 ^ (n - i))) % 16 < 10 THEN 48 ELSE 87)
                + ((c \div (16 ^ (n - i))) % 16)]
        Escaped(c, quote) ==
            CASE c = quote \/ c = 92 -> <<92, c>>
              [] c = 9 -> <<92, 116>>
              [] c = 10 -> <<92, 110>>
              [] c = 13 -> <<92, 114>>
              [] c \notin {quote, 92, 9, 10, 13} /\ ~InRanges(UnicodeData.unprintable, c) ->
                   <<c>>
              [] OTHER ->
                   <<92, IF c < 256 THEN 120 ELSE IF c < 65536 THEN 117 ELSE 85>>
                   \o Hex(c, IF c < 256 THEN 2 ELSE IF c < 65536 THEN 4 ELSE 8)
        Quoted(quote) ==
            <<quote>>
            \o Flat([i \in 1..Len(v.s) |-> Escaped(v.s[i], quote)], 1, Len(v.s))
            \o <<quote>>
    IN IF v.t = "str"
       THEN Quoted(IF (\E i \in 1..Len(v.s) : v.s[i] = 39)
                      /\ ~(\E i \in 1..Len(v.s) : v.s[i] = 34)
                   THEN 34 ELSE 39)
       \* <OrderSide.BUY: 'buy'> for a member of an enum; a number, a bool
       \* and None as str() writes them
       ELSE (IF v.t = "enum" THEN <<60>> ELSE <<>>)
            \o TextOf(v)
            \o (IF v.t = "enum" THEN <<58, 32, 39>> \o v.s \o <<39, 62>> ELSE <<>>)

----------------------------------------------------------------------------
(* Numbers.  A float is the binary64 value q * 2^k with q below 2^53.  In   *)
(* the arithmetic below a natural number is written in digits 0..9, most    *)
(* significant first, or in limbs: its digits to the base 100000, least     *)
(* significant first; a number below 10^18 is also held in three pieces of  *)
(* six digits.                                                              *)

\* the digits of D * base^n for the digits D and the base 2 or 5.  The
\* number is held in limbs, and a factor of 100000 multiplies every limb
\* without a carry moving on
Scaled(D, base, n) ==
    LET Digit(r) == IF r <= Len(D) THEN D[Len(D) + 1 - r] ELSE 0
        Limbs ==
            [j \in 1..((Len(D) + 4) \div 5) |->
                Digit(5 * j - 4) + 10 * Digit(5 * j - 3) + 100 * Digit(5 * j - 2)
                + 1000 * Digit(5 * j - 1) + 10000 * Digit(5 * j)] \o <<>>
        Wide(top) ==
            CASE top >= 10000 -> 5 [] top >= 1000 -> 4 [] top >= 100 -> 3
              [] top >= 10 -> 2 [] OTHER -> 1
        Written(a, len) ==
            [i \in 1..len |-> (a[(len - i) \div 5 + 1] \div (10 ^ ((len - i) % 5))) % 10]
            \o <<>>
        Digits(a) ==
            IF Len(a) = 0 THEN <<>>
            ELSE Written(a, 5 * (Len(a) - 1) + Wide(a[Len(a)]))
        Pass(a, m, len) ==
            [j \in 1..(IF len > 0 /\ (a[len] * m) \div 100000 > 0
                       THEN len + 1 ELSE len) |->
                (IF j <= len THEN (a[j] * m) % 100000 ELSE 0)
                + (IF j > 1 THEN (a[j - 1] * m) \div 100000 ELSE 0)] \o <<>>
        RECURSIVE Scale(_, _)
        Scale(a, m) ==
            LET Then(half) ==
                    IF Len(half) = 0 THEN half
                    ELSE Scale(half, m - 5 * ((m \div 5 + 1) \div 2))
            IN IF m <= 5 THEN Pass(a, base ^ m, Len(a))
               ELSE Then(Scale(a, 5 * ((m \div 5 + 1) \div 2)))
    IN Digits(Scale(Limbs, n))

\* -1, 0 or 1 as a is below, equal to or above b, for two sequences of
\* digits of the same length
DigitsCompared(a, b) ==
    IF a = b THEN 0
    ELSE IF a[Least({i \in 1..Len(a) : a[i] # b[i]})]
            < b[Least({i \in 1..Len(a) : a[i] # b[i]})] THEN -1
    ELSE 1

\* the binary64 value nearest to 0.D * 10^p (ties to the even one), for the
\* digits D of a positive decimal: kind "zero", "inf" or "fin" with the
\* pieces of q and with k
Round(D0, p) ==
    LET \* a digit beyond the 800th only tells that the value is above
        D == IF Len(D0) > 800 THEN SubSeq(D0, 1, 800) \o <<1>> ELSE D0
        \* the power of two the value is first taken over
        k0 == Greatest({-1074, ((p - 1) * 33219) \div 10000 - 54})
        \* the pieces of a * 10^12 + b * 10^6 + c
        Pieces(a, b, c) ==
            <<a + (b + c \div 1000000) \div 1000000, (b + c \div 1000000) % 1000000,
              c % 1000000>>
        Below(q) ==
            \/ q[1] < 9007
            \/ q[1] = 9007 /\ q[2] < 199254
            \/ q[1] = 9007 /\ q[2] = 199254 /\ q[3] < 740992
        \* w over m: the pieces and the remainder
        Halved(w, m) ==
            [q |-> <<w[1] \div m, ((w[1] % m) * 1000000 + w[2]) \div m,
                     ((((w[1] % m) * 1000000 + w[2]) % m) * 1000000 + w[3]) \div m>>,
             r |-> ((((w[1] % m) * 1000000 + w[2]) % m) * 1000000 + w[3]) % m]
        \* the value over 2^k0 is Y * 10^E: cut of the digits of Y, and n
        \* digits with the zeros E adds, stand before the point
        Placed(Y, E) ==
            [Y |-> Y, E |-> E, cut |-> IF E >= 0 THEN Len(Y) ELSE Len(Y) + E,
             n |-> IF E >= 0 THEN (IF Len(Y) = 0 THEN 0 ELSE Len(Y) + E)
                   ELSE Greatest({0, Len(Y) + E})]
        \* the j-th digit before the point
        Digit(r, j) == IF j < 1 \/ j > r.cut THEN 0 ELSE r.Y[j]
        \* the pieces before the point, the first digit after it, and
        \* whether others follow
        Cut(r) ==
            [w |-> [j \in 1..3 |->
                       Digit(r, r.n - 18 + 6 * j) + 10 * Digit(r, r.n - 19 + 6 * j)
                       + 100 * Digit(r, r.n - 20 + 6 * j) + 1000 * Digit(r, r.n - 21 + 6 * j)
                       + 10000 * Digit(r, r.n - 22 + 6 * j)
                       + 100000 * Digit(r, r.n - 23 + 6 * j)] \o <<>>,
             first |-> IF r.E >= 0 \/ r.cut < 0 THEN 0 ELSE r.Y[r.cut + 1],
             more |-> /\ r.E < 0
                      /\ \E i \in (IF r.cut < 0 THEN 1 ELSE r.cut + 2)..Len(r.Y) : r.Y[i] # 0]
        \* the least s that takes w over 2^s below 2^53
        Weighed(r) ==
            [w |-> r.w, first |-> r.first, more |-> r.more,
             s |-> Least({j \in 0..6 : Below(Halved(r.w, 2 ^ j).q)})]
        Sized(r) ==
            [h |-> Halved(r.w, 2 ^ r.s), s |-> r.s, first |-> r.first, more |-> r.more]
        Nearest(r) ==
            [q |-> IF (IF r.s = 0
                       THEN r.first > 5 \/ (r.first = 5 /\ (r.more \/ r.h.q[3] % 2 = 1))
                       ELSE \/ 2 * r.h.r > 2 ^ r.s
                            \/ /\ 2 * r.h.r = 2 ^ r.s
                               /\ r.first > 0 \/ r.more \/ r.h.q[3] % 2 = 1)
                   THEN Pieces(r.h.q[1], r.h.q[2], r.h.q[3] + 1) ELSE r.h.q,
             k |-> k0 + r.s]
        Result(r) ==
            IF r.q = <<0, 0, 0>> THEN [kind |-> "zero", q |-> r.q, k |-> 0]
            ELSE IF ~Below(r.q)
            THEN [kind |-> IF r.k + 1 > 971 THEN "inf" ELSE "fin",
                  q |-> <<4503, 599627, 370496>>, k |-> r.k + 1]
            ELSE [kind |-> IF r.k > 971 THEN "inf" ELSE "fin", q |-> r.q, k |-> r.k]
    IN Result(Nearest(Sized(Weighed(Cut(Placed(
                  Scaled(D, IF k0 <= 0 THEN 2 ELSE 5, IF k0 <= 0 THEN 0 - k0 ELSE k0),
                  IF k0 <= 0 THEN p - Len(D) ELSE p - Len(D) - k0))))))

\* the shortest decimal that Round takes to the float r, the nearest to it
\* among them: its digits and the place of its point (0.digits * 10^point),
\* none for zero and for inf
Shortest(r) ==
    LET \* the pieces of a * 10^12 + b * 10^6 + c
        Pieces(a, b, c) ==
            <<a + (b + c \div 1000000) \div 1000000, (b + c \div 1000000) % 1000000,
              c % 1000000>>
        Digits(w) ==
            [i \in 1..18 |-> (w[(i - 1) \div 6 + 1] \div (10 ^ (5 - ((i - 1) % 6)))) % 10]
            \o <<>>
        \* digits without the zeros that lead
        Whole(ds) ==
            SubSeq(ds, Least({i \in 1..Len(ds) : ds[i] # 0} \cup {Len(ds) + 1}), Len(ds))
        Padded(x, n) ==
            [i \in 1..n |-> IF i <= n - Len(x) THEN 0 ELSE x[i - (n - Len(x))]] \o <<>>
        \* t holds the digits of four times the float and of the bounds below
        \* and above it: X between L and H, all of n digits, z of them the
        \* zeros that lead X
        Bounded(t) ==
            [X |-> Padded(t[1], Len(t[3])), L |-> Padded(t[2], Len(t[3])), H |-> t[3],
             n |-> Len(t[3]), z |-> Len(t[3]) - Len(t[1])]
        \* the first m digits of X are kept, for one to 17 digits after its
        \* zeros; free are the places of those below 9
        Free(b) ==
            [i \in 1..(IF b.z + 17 < b.n THEN 17 ELSE b.n - b.z) |->
                [b |-> b, m |-> b.z + i, free |-> {j \in 1..(b.z + i) : b.X[j] # 9}]]
            \o <<>>
        \* the digits kept, and the next number of as many digits
        Raised(rs) ==
            [i \in 1..Len(rs) |->
                [b |-> rs[i].b, m |-> rs[i].m, free |-> rs[i].free,
                 lo |-> [j \in 1..rs[i].b.n |->
                            IF j <= rs[i].m THEN rs[i].b.X[j] ELSE 0] \o <<>>,
                 hi |-> [j \in 1..rs[i].b.n |->
                            CASE rs[i].free = {} \/ j > Greatest(rs[i].free) -> 0
                              [] rs[i].free # {} /\ j = Greatest(rs[i].free) ->
                                   rs[i].b.X[j] + 1
                              [] OTHER -> rs[i].b.X[j]] \o <<>>]] \o <<>>
        Against(rs) ==
            [i \in 1..Len(rs) |->
                [b |-> rs[i].b, m |-> rs[i].m, lo |-> rs[i].lo, hi |-> rs[i].hi,
                 below |-> DigitsCompared(rs[i].lo, rs[i].b.L),
                 above |-> IF rs[i].free = {} THEN -1
                           ELSE DigitsCompared(rs[i].b.H, rs[i].hi),
                 rest |-> {j \in (rs[i].m + 1)..rs[i].b.n : rs[i].b.X[j] # 0}]] \o <<>>
        \* a bound counts when it lies inside, or on the edge of an even float
        Within(cmp) == cmp > 0 \/ (cmp = 0 /\ r.q[3] % 2 = 0)
        \* the lower one is the nearer, the even one of two as near
        Nearer(x) ==
            \/ x.rest = {}
            \/ x.m + 1 <= x.b.n /\ x.b.X[x.m + 1] < 5
            \/ /\ x.m + 1 <= x.b.n /\ x.b.X[x.m + 1] = 5
               /\ x.rest = {x.m + 1}
               /\ x.b.X[x.m] % 2 = 0
        Judged(rs) ==
            [i \in 1..Len(rs) |->
                [ok |-> Within(rs[i].below) \/ Within(rs[i].above),
                 c |-> IF Within(rs[i].below) /\ (~Within(rs[i].above) \/ Nearer(rs[i]))
                       THEN rs[i].lo ELSE rs[i].hi]] \o <<>>
        \* the fewest digits that do
        First(ks) == ks[Least({i \in 1..Len(ks) : ks[i].ok})].c
        \* the number holds 2 - r.k places after the point, or none
        Trimmed(c) ==
            [kind |-> "fin",
             digits |-> SubSeq(c, Least({i \in 1..Len(c) : c[i] # 0}),
                               Greatest({i \in 1..Len(c) : c[i] # 0})),
             point |-> Len(c) + (IF r.k >= 2 THEN 0 ELSE r.k - 2)
                       - Least({i \in 1..Len(c) : c[i] # 0}) + 1]
    IN IF r.kind # "fin" THEN [kind |-> r.kind, digits |-> <<>>, point |-> 0]
       ELSE Trimmed(First(Judged(Against(Raised(Free(Bounded(
           [j \in 1..3 |->
               Scaled(Whole(Digits(Pieces(
                          4 * r.q[1], 4 * r.q[2],
                          4 * r.q[3]
                          + (CASE j = 1 -> 0
                               [] j = 2 ->
                                    IF r.k > -1074 /\ r.q = <<4503, 599627, 370496>>
                                    THEN -1 ELSE -2
                               [] OTHER -> 2)))),
                      IF r.k >= 2 THEN 2 ELSE 5, IF r.k >= 2 THEN r.k - 2 ELSE 2 - r.k)]
           \o <<>>)))))))

\* what a text writes, as float() and int() read it: kind "bad" for a text
\* that is no number, "over" for an int of more than 4300 digits, "inf",
\* "nan", or "dec" for a decimal: its sign, its significant digits and the
\* place of its point (0.digits * 10^point), and for an int its digits.
\* The text is read in steps, each from what the step before has found: a
\* step passes on what is not its part
DecimalOf(text, as_int) ==
    LET IsDigit(c) == 48 <= c /\ c <= 57
        Plain(c) == c # 95
        Other(kind, neg, count) ==
            [kind |-> kind, neg |-> neg, digits |-> <<>>, point |-> 0,
             whole |-> <<>>, count |-> count]
        \* how far c lies above the zero of its run of digits
        Gap(c) ==
            c - Greatest({z \in {UnicodeData.digits[i] : i \in 1..Len(UnicodeData.digits)} :
                             z <= c})
        \* the decimal digits and the white space of every script are read
        \* as the ASCII ones, another character beyond ASCII as "?"
        Ascii(c) ==
            IF c < 128 THEN c
            ELSE IF IsSpace(c) THEN 32
            ELSE IF Gap(c) <= 9 THEN 48 + Gap(c) ELSE 63
        \* the text without the white space around it
        Stripped(a) ==
            IF \A i \in 1..Len(a) : a[i] \in {9, 10, 11, 12, 13, 32} THEN <<>>
            ELSE SubSeq(a, Least({i \in 1..Len(a) : a[i] \notin {9, 10, 11, 12, 13, 32}}),
                        Greatest({i \in 1..Len(a) : a[i] \notin {9, 10, 11, 12, 13, 32}}))
        Signed(s) ==
            [neg |-> Len(s) > 0 /\ s[1] = 45,
             body |-> SubSeq(s, IF Len(s) > 0 /\ s[1] \in {43, 45} THEN 2 ELSE 1, Len(s))]
        \* int(): the digits and underscores after the sign are a run, and
        \* nothing may follow.  float(): inf, infinity and nan in any case;
        \* else an underscore stands between two digits
        Body(r) ==
            IF as_int
            THEN [kind |-> "run", neg |-> r.neg,
                  run |-> SubSeq(r.body, 1,
                                 Least({i \in 1..Len(r.body) :
                                           ~IsDigit(r.body[i]) /\ r.body[i] # 95}
                                       \cup {Len(r.body) + 1}) - 1),
                  alone |-> \A i \in 1..Len(r.body) :
                                IsDigit(r.body[i]) \/ r.body[i] = 95]
            ELSE IF Len(r.body) > 0 /\ r.body[1] \in {73, 105, 78, 110}
            THEN Other(CASE [i \in 1..Len(r.body) |->
                                IF 65 <= r.body[i] /\ r.body[i] <= 90
                                THEN r.body[i] + 32 ELSE r.body[i]]
                            \in {<<105, 110, 102>>, <<105, 110, 102, 105, 110, 105, 116, 121>>}
                              -> "inf"
                         [] [i \in 1..Len(r.body) |->
                                IF 65 <= r.body[i] /\ r.body[i] <= 90
                                THEN r.body[i] + 32 ELSE r.body[i]] = <<110, 97, 110>>
                              -> "nan"
                         [] OTHER -> "bad",
                       r.neg, 0)
            ELSE IF \E i \in 1..Len(r.body) :
                       /\ r.body[i] = 95
                       /\ ~(/\ 1 < i /\ i < Len(r.body)
                            /\ IsDigit(r.body[i - 1]) /\ IsDigit(r.body[i + 1]))
            THEN Other("bad", FALSE, 0)
            ELSE [kind |-> "go", neg |-> r.neg, b |-> SelectSeq(r.body, Plain)]
        \* the mantissa before an e, and what follows it
        Marked(r) ==
            IF r.kind # "go" THEN r
            ELSE IF Cardinality({i \in 1..Len(r.b) : r.b[i] \in {69, 101}}) > 1
            THEN Other("bad", FALSE, 0)
            ELSE [kind |-> "go", neg |-> r.neg,
                  bare |-> \A i \in 1..Len(r.b) : r.b[i] \notin {69, 101},
                  mant |-> SubSeq(r.b, 1,
                                  Least({i \in 1..Len(r.b) : r.b[i] \in {69, 101}}
                                        \cup {Len(r.b) + 1}) - 1),
                  ex |-> SubSeq(r.b,
                                Least({i \in 1..Len(r.b) : r.b[i] \in {69, 101}}
                                      \cup {Len(r.b) + 1}) + 1,
                                Len(r.b))]
        \* the sign and the digits of the exponent
        Raised(r) ==
            IF r.kind # "go" THEN r
            ELSE [kind |-> "go", neg |-> r.neg, bare |-> r.bare, mant |-> r.mant,
                  down |-> Len(r.ex) > 0 /\ r.ex[1] = 45,
                  ds |-> SubSeq(r.ex, IF Len(r.ex) > 0 /\ r.ex[1] \in {43, 45} THEN 2 ELSE 1,
                                Len(r.ex))]
        \* the value of a run of digits
        RECURSIVE Valued(_)
        Valued(ds) ==
            IF ds = <<>> THEN 0
            ELSE 10 * Valued(SubSeq(ds, 1, Len(ds) - 1)) + ds[Len(ds)] - 48
        \* the value of the exponent, 10^8 standing for more
        Powered(r) ==
            IF r.kind # "go" THEN r
            ELSE IF ~r.bare /\ (r.ds = <<>> \/ \E i \in 1..Len(r.ds) : ~IsDigit(r.ds[i]))
            THEN Other("bad", FALSE, 0)
            ELSE [kind |-> "go", neg |-> r.neg, mant |-> r.mant,
                  e10 |-> (IF r.down THEN -1 ELSE 1)
                          * (CASE r.bare \/ \A i \in 1..Len(r.ds) : r.ds[i] = 48 -> 0
                               [] Len(r.ds) - Least({i \in 1..Len(r.ds) : r.ds[i] # 48}
                                                    \cup {Len(r.ds) + 1}) + 1 > 8
                                    -> 100000000
                               [] OTHER -> Valued(SubSeq(r.ds, Greatest({1, Len(r.ds) - 7}),
                                                         Len(r.ds))))]
        \* the digits before and after the point
        Pointed(r) ==
            IF r.kind # "go" THEN r
            ELSE IF Cardinality({i \in 1..Len(r.mant) : r.mant[i] = 46}) > 1
            THEN Other("bad", FALSE, 0)
            ELSE [kind |-> "go", neg |-> r.neg, e10 |-> r.e10,
                  ip |-> SubSeq(r.mant, 1,
                                Least({i \in 1..Len(r.mant) : r.mant[i] = 46}
                                      \cup {Len(r.mant) + 1}) - 1),
                  fp |-> SubSeq(r.mant,
                                Least({i \in 1..Len(r.mant) : r.mant[i] = 46}
                                      \cup {Len(r.mant) + 1}) + 1,
                                Len(r.mant))]
        Number(r) ==
            IF r.kind # "go" THEN r
            ELSE IF /\ Len(r.ip) + Len(r.fp) > 0
                    /\ \A i \in 1..Len(r.ip) : IsDigit(r.ip[i])
                    /\ \A i \in 1..Len(r.fp) : IsDigit(r.fp[i])
            THEN [kind |-> "num", neg |-> r.neg, ds |-> r.ip \o r.fp,
                  e10 |-> r.e10 - Len(r.fp)]
            ELSE Other("bad", FALSE, 0)
        \* the digits of an int, its underscores each between two digits
        Counted(r) ==
            IF r.kind # "run" THEN r
            ELSE IF \/ Len(r.run) = 0 \/ r.run[1] = 95 \/ r.run[Len(r.run)] = 95
                    \/ \E i \in 1..(Len(r.run) - 1) : r.run[i] = 95 /\ r.run[i + 1] = 95
            THEN Other("bad", FALSE, 0)
            ELSE IF Len(SelectSeq(r.run, Plain)) > 4300
            THEN Other("over", r.neg, Len(SelectSeq(r.run, Plain)))
            ELSE IF ~r.alone THEN Other("bad", FALSE, 0)
            ELSE [kind |-> "num", neg |-> r.neg, ds |-> SelectSeq(r.run, Plain), e10 |-> 0]
        \* the places of the first and the last digit that is not a zero
        Solid(r) ==
            IF r.kind # "num" THEN r
            ELSE [kind |-> "num", neg |-> r.neg, ds |-> r.ds, e10 |-> r.e10,
                  first |-> Least({i \in 1..Len(r.ds) : r.ds[i] # 48} \cup {Len(r.ds) + 1}),
                  last |-> Greatest({i \in 1..Len(r.ds) : r.ds[i] # 48} \cup {0})]
        Decimal(r) ==
            IF r.kind # "num" THEN r
            ELSE [kind |-> "dec", neg |-> r.neg,
                  digits |-> [i \in 1..(r.last - r.first + 1) |-> r.ds[r.first + i - 1] - 48],
                  point |-> IF r.last = 0 THEN 0 ELSE Len(r.ds) - r.first + 1 + r.e10,
                  whole |-> IF r.last = 0 THEN <<48>> ELSE SubSeq(r.ds, r.first, Len(r.ds)),
                  count |-> Len(r.ds)]
    IN Decimal(Solid(Counted(Number(Pointed(Powered(Raised(Marked(Body(Signed(Stripped(
           [i \in 1..Len(text) |-> Ascii(text[i])])))))))))))

\* repr() of the float nearest to the decimal d read in a text: the
\* shortest decimal that reads back as that float; no text for no number
FloatText(d) ==
    LET Zeros(n) == [i \in 1..n |-> 48]
        \* the float w with its digits as characters
        Written(w) ==
            [kind |-> w.kind, point |-> w.point,
             C |-> [i \in 1..Len(w.digits) |-> 48 + w.digits[i]]]
        \* the text of the float w, signed: inf, or 0.C * 10^point for the
        \* digits of a shortest decimal, a power of ten written from 10^16 on
        \* and below 10^-4, its exponent in two digits at least
        Shown(neg, w) ==
            (IF neg THEN <<45>> ELSE <<>>)
            \o (CASE w.kind = "inf" -> <<105, 110, 102>>
                  [] w.kind # "inf" /\ Len(w.C) = 0 -> <<48, 46, 48>>
                  [] Len(w.C) > 0 /\ (w.point <= -4 \/ w.point > 16) ->
                       <<w.C[1]>>
                       \o (IF Len(w.C) > 1 THEN <<46>> \o SubSeq(w.C, 2, Len(w.C)) ELSE <<>>)
                       \o <<101, IF w.point < 1 THEN 45 ELSE 43>>
                       \o (IF w.point > -9 /\ w.point < 11 THEN <<48>> ELSE <<>>)
                       \o IntText(IF w.point < 1 THEN 1 - w.point ELSE w.point - 1)
                  [] Len(w.C) > 0 /\ -4 < w.point /\ w.point <= 0 ->
                       <<48, 46>> \o Zeros(0 - w.point) \o w.C
                  [] Len(w.C) > 0 /\ 0 < w.point /\ w.point < Len(w.C) ->
                       SubSeq(w.C, 1, w.point) \o <<46>> \o SubSeq(w.C, w.point + 1, Len(w.C))
                  [] OTHER -> w.C \o Zeros(w.point - Len(w.C)) \o <<46, 48>>)
    IN CASE d.kind = "nan" -> <<110, 97, 110>>
         [] d.kind \in {"dec", "inf"} ->
              Shown(d.neg,
                    Written(IF d.kind = "inf" \/ (d.digits # <<>> /\ d.point > 310)
                            THEN [kind |-> "inf", digits |-> <<>>, point |-> 0]
                            ELSE IF d.digits = <<>> \/ d.point < -324
                            THEN [kind |-> "zero", digits |-> <<>>, point |-> 0]
                            ELSE IF Len(d.digits) <= 15 /\ -306 <= d.point /\ d.point <= 308
                            THEN [kind |-> "fin", digits |-> d.digits, point |-> d.point]
                            ELSE Shortest(Round(d.digits, d.point))))
         [] OTHER -> <<>>

\* the sign of a number: -1, 0 or 1 (1 for nan).  A number is held as the
\* text Python prints for it, so that zero reads 0, 0.0 or -0.0
NumSign(v) ==
    IF v.t = "bool" THEN (IF v.s = <<84, 114, 117, 101>> THEN 1 ELSE 0)
    ELSE IF v.s \in {<<48>>, <<48, 46, 48>>, <<45, 48, 46, 48>>} THEN 0
    ELSE IF Len(v.s) > 0 /\ v.s[1] = 45 THEN -1 ELSE 1

\* bool(v): None, 0, 0.0 and "" are falsy
Truthy(v) ==
    CASE v.t = "none" -> FALSE
      [] v.t = "missing" -> FALSE
      [] v.t \in {"int", "float", "bool"} -> NumSign(v) # 0
      [] v.t = "str" -> v.s # <<>>
      [] OTHER -> TRUE

\* -1, 0 or 1 as the number v is below, equal to or above the natural
\* number c below 2^31; 2 when v is nan
NumCompared(v, c) ==
    LET \* 0.D * 10^p against the digits C of c
        Sized(D, C, n) ==
            DigitsCompared([i \in 1..n |-> IF i <= Len(D) THEN D[i] ELSE 0],
                           [i \in 1..n |-> IF i <= Len(C) THEN C[i] - 48 ELSE 0])
        Positive(D, p, C) ==
            IF c = 0 THEN 1
            ELSE IF p # Len(C) THEN (IF p < Len(C) THEN -1 ELSE 1)
            ELSE Sized(D, C, IF Len(D) > Len(C) THEN Len(D) ELSE Len(C))
        Against(d) ==
            CASE d.kind = "nan" -> 2
              [] d.kind = "inf" -> IF d.neg THEN -1 ELSE 1
              [] d.digits = <<>> -> IF c = 0 THEN 0 ELSE -1
              [] d.neg -> -1
              [] OTHER -> Positive(d.digits, d.point, IntText(c))
    IN Against(DecimalOf(IF v.t = "bool" THEN IntText(NumSign(v)) ELSE v.s, FALSE))

----------------------------------------------------------------------------
(* Python operations that may raise *)

\* v <= 0
PyLe0(v) ==
    IF v.t \in {"int", "float", "bool"} THEN Val(Bool(NumSign(v) <= 0))
    ELSE Exc(T("'<=' not supported between instances of '") \o TypeName(v)
             \o T("' and 'int'"))

\* v.lower(): a method of str, which the enums of the SDK inherit
PyLower(v) ==
    IF v.t \in {"str", "enum"} THEN Val(Text(LowerText(v.s)))
    ELSE Exc(T("'") \o TypeName(v) \o T("' object has no attribute 'lower'"))

\* float(v)
PyFloat(v) ==
    LET \* the float of the text a number shows as; an int may lie beyond the
        \* floats, and a text may be no number
        Floated(text, shown) ==
            IF text = <<>> THEN Exc(T("could not convert string to float: ") \o shown)
            ELSE IF v.t = "int" /\ text \in {<<105, 110, 102>>, <<45, 105, 110, 102>>}
            THEN Exc(T("int too large to convert to float"))
            ELSE Val([t |-> "float", s |-> text])
    IN CASE v.t = "float" -> Val(v)
         [] v.t = "bool" -> Val(Flt(NumSign(v)))
         [] v.t \in {"int", "str", "enum"} ->
              Floated(FloatText(DecimalOf(v.s, FALSE)), Repr(v))
         [] OTHER ->
              Exc(T("float() argument must be a string or a real number, not '")
                  \o TypeName(v) \o <<39>>)

\* int(v)
PyInt(v) ==
    LET Signed(neg, ds) ==
            [t |-> "int", s |-> (IF neg /\ ds # <<48>> THEN <<45>> ELSE <<>>) \o ds]
        Codes(ds) == IF ds = <<>> THEN <<48>> ELSE [i \in 1..Len(ds) |-> 48 + ds[i]] \o <<>>
        \* the digits of the pieces w, without the zeros that lead
        Whole(ds) ==
            SubSeq(ds, Least({i \in 1..Len(ds) : ds[i] # 0} \cup {Len(ds) + 1}), Len(ds))
        Written(w) ==
            Whole([i \in 1..18 |->
                      (w[(i - 1) \div 6 + 1] \div (10 ^ (5 - ((i - 1) % 6)))) % 10]
                  \o <<>>)
        \* a float of more than 15 digits before the point is q * 2^k
        Rounded(d) ==
            [d |-> d,
             r |-> IF v.t = "float" /\ d.kind = "dec" /\ d.point > 15
                   THEN Round(d.digits, d.point) ELSE [q |-> <<0, 0, 0>>, k |-> 0]]
        \* its whole part, from the digits of q * 2^k, or of q * 5^(-k) with
        \* -k places after the point
        Exact(x) ==
            [d |-> x.d, k |-> x.r.k,
             y |-> IF x.r.q = <<0, 0, 0>> THEN <<>>
                   ELSE Scaled(Written(x.r.q), IF x.r.k >= 0 THEN 2 ELSE 5,
                               IF x.r.k >= 0 THEN x.r.k ELSE 0 - x.r.k)]
        Read(x, shown) ==
            CASE v.t # "float" /\ x.d.kind = "dec" -> Val(Signed(x.d.neg, x.d.whole))
              [] v.t # "float" /\ x.d.kind = "over" ->
                   Exc(T("Exceeds the limit (4300 digits) for integer string conversion: value has ")
                       \o IntText(x.d.count)
                       \o T(" digits; use sys.set_int_max_str_digits() to increase the limit"))
              [] v.t # "float" /\ x.d.kind \notin {"dec", "over"} ->
                   Exc(T("invalid literal for int() with base 10: ")
                       \o (IF Len(shown) > 200 THEN SubSeq(shown, 1, 200) ELSE shown))
              [] v.t = "float" /\ x.d.kind = "inf" ->
                   Exc(T("cannot convert float infinity to integer"))
              [] v.t = "float" /\ x.d.kind = "nan" ->
                   Exc(T("cannot convert float NaN to integer"))
              [] v.t = "float" /\ x.d.kind = "dec" /\ x.d.point <= 0 -> Val(Num(0))
              [] v.t = "float" /\ x.d.kind = "dec" /\ 0 < x.d.point /\ x.d.point <= 15 ->
                   Val(Signed(x.d.neg,
                              Codes([i \in 1..x.d.point |->
                                        IF i <= Len(x.d.digits) THEN x.d.digits[i] ELSE 0])))
              [] OTHER ->
                   Val(Signed(x.d.neg,
                              Codes(SubSeq(x.y, 1, IF x.k >= 0 THEN Len(x.y)
                                                   ELSE Len(x.y) + x.k))))
    IN CASE v.t = "int" -> Val(v)
         [] v.t = "bool" -> Val(Num(NumSign(v)))
         [] v.t \in {"float", "str", "enum"} ->
              Read(Exact(Rounded(DecimalOf(v.s, v.t # "float"))), Repr(v))
         [] OTHER ->
              Exc(T("int() argument must be a string, a bytes-like object or a real number, not '")
                  \o TypeName(v) \o <<39>>)

\* str(v)
PyStr(v) == IF v.t = "missing" THEN v ELSE Text(TextOf(v))

\* v.value
PyValue(v) ==
    IF v.t = "enum" THEN Val(Text(v.s))
    ELSE Exc(T("'") \o TypeName(v) \o T("' object has no attribute 'value'"))

\* v.value if hasattr(v, 'value') else v
PyValueOrSelf(v) == IF v.t = "enum" THEN Text(v.s) ELSE v

\* float(v) if v else None
PyFloatOrNone(v) == IF Truthy(v) THEN PyFloat(v) ELSE Val(None)

\* x == y.  Numbers are equal by their exact values (5 == 5.0, True == 1,
\* 0.0 == -0.0), nan is equal to nothing; texts by their characters, an enum
\* member of the SDK being a str; None to None only.  Two datetimes that
\* both carry a UTC offset are equal when they are the same instant, two
\* without one when their fields are the same, and one with an offset is
\* never equal to one without
PyEq(x, y) ==
    LET IsNumber(v) == v.t \in {"int", "float", "bool"}
        AsInt(v) == IF v.t = "bool" THEN Num(NumSign(v)) ELSE v
        \* the number the digits of the isoformat() text s write from place i
        \* to place j
        Digits(s, i, j) ==
            LET RECURSIVE Read(_, _)
                Read(k, n) == IF k > j THEN n ELSE Read(k + 1, 10 * n + s[k] - 48)
            IN Read(i, 0)
        \* the days of the proleptic Gregorian calendar up to the date
        Days(year, month, day) ==
            LET yy == IF month <= 2 THEN year - 1 ELSE year
                mm == IF month <= 2 THEN month + 9 ELSE month - 3
            IN 365 * yy + yy \div 4 - yy \div 100 + yy \div 400
               + (153 * mm + 2) \div 5 + day
        \* the microseconds written at place i (".ffffff"), 0 when none are
        Micros(s, i) ==
            IF Len(s) >= i + 6 /\ s[i] = 46 THEN Digits(s, i + 1, i + 6) ELSE 0
        \* a time of day, possibly before 0 or after 24 hours, on its day
        Carried(aware, days, secs, micros) ==
            LET m == micros + 1000000
                t == secs + (m \div 1000000) - 1 + 2 * 86400
            IN <<aware, days + (t \div 86400) - 2, t % 86400, m % 1000000>>
        \* isoformat() is YYYY-MM-DDTHH:MM:SS[.ffffff][+HH:MM[:SS[.ffffff]]];
        \* o is the place of the sign of the offset, 0 without one
        Placed(s, o) ==
            LET sign == IF o = 0 THEN 0 ELSE IF s[o] = 45 THEN 0 - 1 ELSE 1
                off == IF o = 0 THEN 0
                       ELSE 3600 * Digits(s, o + 1, o + 2) + 60 * Digits(s, o + 4, o + 5)
                            + (IF Len(s) >= o + 8 THEN Digits(s, o + 7, o + 8) ELSE 0)
                offmicros == IF o = 0 THEN 0 ELSE Micros(s, o + 9)
            IN Carried(o # 0,
                       Days(Digits(s, 1, 4), Digits(s, 6, 7), Digits(s, 9, 10)),
                       3600 * Digits(s, 12, 13) + 60 * Digits(s, 15, 16)
                       + Digits(s, 18, 19) - sign * off,
                       Micros(s, 20) - sign * offmicros)
        \* what a datetime is compared by: whether it carries an offset, and
        \* its day, second and microsecond (in UTC when it does)
        Instant(s) ==
            Placed(s, IF Len(s) >= 20 /\ s[20] \in {43, 45} THEN 20
                      ELSE IF Len(s) >= 27 /\ s[27] \in {43, 45} THEN 27 ELSE 0)
        \* the int i against a float: the float is whole (d is what its text
        \* writes) and its exact value w has the digits of i
        IntFloat(i, d, w) ==
            /\ d.kind = "dec"
            /\ (d.digits = <<>> \/ d.point >= Len(d.digits))
            /\ w.st = "ok"
            /\ w.val.s = i.s
        Floats(a, b) ==
            /\ a.s # <<110, 97, 110>>
            /\ (a.s = b.s \/ (NumSign(a) = 0 /\ NumSign(b) = 0))
        Numbers(a, b, d, w) ==
            CASE a.t = "float" /\ b.t = "float" -> Floats(a, b)
              [] a.t = "float" -> IntFloat(b, d, w)
              [] b.t = "float" -> IntFloat(a, d, w)
              [] OTHER -> a.s = b.s
        \* d and w are of the float among x and y, if there is one
        Compared(d, w) ==
            CASE IsNumber(x) /\ IsNumber(y) -> Numbers(AsInt(x), AsInt(y), d, w)
              [] x.t \in {"str", "enum"} /\ y.t \in {"str", "enum"} -> x.s = y.s
              [] x.t = "datetime" /\ y.t = "datetime" -> Instant(x.s) = Instant(y.s)
              [] OTHER -> x.t = "none" /\ y.t = "none"
    IN Compared(DecimalOf((IF x.t = "float" THEN x ELSE y).s, FALSE),
                PyInt(IF x.t = "float" THEN x ELSE y))

----------------------------------------------------------------------------
(* Response envelopes (shared.types.MCPResponse and its typed variants):   *)
(* success, data (None when absent), error (None when absent).  What an    *)
(* invocation hands back is an envelope, or an exception that left the     *)
(* tool; site names the return statement taken.                            *)

NoResult ==
    [kind |-> "none", success |-> FALSE, data |-> None, error |-> None,
     exc |-> <<>>, site |-> "none"]

Envelope(success, data, error, site) ==
    [kind |-> "returned", success |-> success, data |-> data, error |-> error,
     exc |-> <<>>, site |-> site]

\* return XResponse(success=True, data=data)
Success(data, cs) == [calls |-> cs, res |-> Envelope(TRUE, data, None, "success")]

\* return MCPResponse(success=False, error=text) before or inside the try body
Invalid(text, cs) ==
    [calls |-> cs, res |-> Envelope(FALSE, None, Text(text), "validation")]

\* return XResponse(success=False, error=text) after an SDK call found nothing
NotFound(text, cs) ==
    [calls |-> cs, res |-> Envelope(FALSE, None, Text(text), "lookup")]

\* not an envelope: the exception leaves the tool
Propagated(m, cs) ==
    [calls |-> cs,
     res |-> [kind |-> "raised", success |-> FALSE, data |-> None,
              error |-> None, exc |-> m, site |-> "propagated"]]

----------------------------------------------------------------------------
(* The brokerage SDK, as scripted for one invocation: whether building the *)
(* request object raises, whether the client method raises (with which     *)
(* message) or returns, and the shape of the object it returns.            *)

\* the order of the test fixture mock_order: 10 shares of AAPL bought at
\* market and filled (the fixture draws the id and both times when it runs;
\* the times are datetime objects in UTC)
mock_order ==
    [id |-> Str("904837e3-3b76-47ec-b432-046db621571b"), symbol |-> Str("AAPL"),
     qty |-> Str("10"), side |-> Enum("buy"), order_type |-> Enum("market"),
     status |-> Enum("filled"),
     submitted_at |-> [t |-> "datetime", s |-> T("2024-01-19T14:30:00+00:00")],
     filled_at |-> [t |-> "datetime", s |-> T("2024-01-19T14:30:00+00:00")],
     filled_qty |-> Str("10"), filled_avg_price |-> Str("175.00"),
     limit_price |-> None, stop_price |-> None, trail_percent |-> None,
     trail_price |-> None]

\* exceptions raised by the SDK carry a message or no text.  Shapes of a
\* returned order: "echo" carries the submitted values as numeric text and
\* enum-wrapped side/type/status; "nullprice" has every price and trail
\* field None; "plain" has side/type/status as plain strings; "fixture" is
\* the order held in the field order, whatever was submitted: mock_order as
\* the fixture builds it, or with the fields the order tests set on it
SdkBehaviours ==
    {[ctor |-> "raise", call |-> "return",
      msg |-> T("1 validation error for request"), shape |-> "echo",
      order |-> None]}
    \cup {[ctor |-> "ok", call |-> "raise", msg |-> m, shape |-> "echo",
           order |-> None] :
             m \in {<<>>, T("Insufficient funds")}}
    \cup {[ctor |-> "ok", call |-> "return", msg |-> <<>>, shape |-> sh,
           order |-> None] :
             sh \in {"echo", "nullprice", "plain"}}
    \cup {[ctor |-> "ok", call |-> "return", msg |-> <<>>, shape |-> "fixture",
           order |-> o] :
             o \in {mock_order,
                    [mock_order EXCEPT !.order_type = Enum("limit"),
                                       !.limit_price = Str("175.00")],
                    [mock_order EXCEPT !.order_type = Enum("stop_limit"),
                                       !.stop_price = Str("170.00"),
                                       !.limit_price = Str("169.00")]}}

\* building an alpaca request object (pydantic validation inside the SDK)
Ctor(sdk) == IF sdk.ctor = "raise" THEN Exc(sdk.msg) ELSE Val(None)

\* an order request object of alpaca.trading.requests
OrderReq(cls, symbol, qty, side, tif, limit_price, stop_price, trail_percent, trail_price, order_class, take_profit, stop_loss, legs) ==
    [cls |-> cls, symbol |-> symbol, qty |-> qty, side |-> side,
     time_in_force |-> tif, limit_price |-> limit_price,
     stop_price |-> stop_price, trail_percent |-> trail_percent,
     trail_price |-> trail_price, order_class |-> order_class,
     take_profit |-> take_profit, stop_loss |-> stop_loss, legs |-> legs]

Wrap(shape, v) == IF shape = "plain" THEN Str(v) ELSE Enum(v)

\* the Order object the brokerage answers an accepted request with: the
\* submitted values in the given shape
OrderObj(req, shape) ==
    LET OrderTypeOf ==
            CASE req.cls = "MarketOrderRequest" -> "market"
              [] req.cls = "LimitOrderRequest" -> "limit"
              [] req.cls = "StopOrderRequest" -> "stop"
              [] req.cls = "StopLimitOrderRequest" -> "stop_limit"
              [] OTHER -> "trailing_stop"
        \* a price as decimal text, or null for an order that carries none
        Price(v) == IF shape = "nullprice" THEN None ELSE PyStr(v)
    IN
    [id |-> Str("904837e3-3b76-47ec-b432-046db621571b"),
     symbol |-> req.symbol,
     qty |-> PyStr(req.qty),
     side |-> Wrap(shape, IF req.side = "BUY" THEN "buy" ELSE "sell"),
     order_type |-> Wrap(shape, OrderTypeOf),
     status |-> Wrap(shape, "accepted"),
     limit_price |-> IF IsNone(req.limit_price) THEN None
                     ELSE Price(req.limit_price),
     stop_price |-> IF IsNone(req.stop_price) THEN None
                    ELSE Price(req.stop_price),
     trail_percent |-> IF IsNone(req.trail_percent) THEN None
                       ELSE Price(req.trail_percent),
     trail_price |-> IF IsNone(req.trail_price) THEN None
                     ELSE Price(req.trail_price)]

\* one entry of the log of client-method calls made during an invocation
\* (ret is what the method returned, None when it raised)
Call(method, req, r) ==
    [method |-> method, req |-> req, raised |-> r.st = "exc", msg |-> r.msg,
     ret |-> IF r.st = "exc" THEN None ELSE r.val]

\* self.trading_client.<method>(...) returning obj unless scripted to raise
ClientCall(sdk, obj) ==
    IF sdk.call = "raise" THEN Exc(sdk.msg) ELSE Val(obj)

----------------------------------------------------------------------------
(* Module-level helpers of server.py *)

\* a table whose default is DAY: C13 must tell it apart from the table of the
\* code
TIME_IN_FORCE_MAP_day_default(k) ==
    CASE k = T("gtc") -> "GTC" [] k = T("day") -> "DAY" [] k = T("ioc") -> "IOC"
      [] k = T("fok") -> "FOK" [] k = T("cls") -> "CLS" [] k = T("opg") -> "OPG"
      [] OTHER -> "DAY"

\* TIME_IN_FORCE_MAP.get(time_in_force.lower(), TimeInForce.GTC)
TIME_IN_FORCE_MAP(k) ==
    CASE k = T("gtc") -> "GTC" [] k = T("day") -> "DAY" [] k = T("ioc") -> "IOC"
      [] k = T("fok") -> "FOK" [] k = T("cls") -> "CLS" [] k = T("opg") -> "OPG"
      [] OTHER -> "GTC"

\* a table that lost one of its four entries: C11 must tell it apart from
\* the table of the code
POSITION_INTENT_MAP_three(k) ==
    CASE k = T("buy_to_open") -> Enum("buy_to_open")
      [] k = T("buy_to_close") -> Enum("buy_to_close")
      [] k = T("sell_to_open") -> Enum("sell_to_open")
      [] OTHER -> None

\* POSITION_INTENT_MAP.get(key): None when the key is not in the map
POSITION_INTENT_MAP(k) ==
    CASE k = T("buy_to_open") -> Enum("buy_to_open")
      [] k = T("buy_to_close") -> Enum("buy_to_close")
      [] k = T("sell_to_open") -> Enum("sell_to_open")
      [] k = T("sell_to_close") -> Enum("sell_to_close")
      [] OTHER -> None

\* a mapping that treats every text other than "sell" as BUY: C12 must tell it
\* apart from the mapping of the code
OrderSideOf_buy_default(lowered) == IF lowered = T("sell") THEN "SELL" ELSE "BUY"

\* OrderSide.BUY if side.lower() == "buy" else OrderSide.SELL
OrderSideOf(lowered) == IF lowered = T("buy") THEN "BUY" ELSE "SELL"

\* `v is not None and v <= 0` followed by `return msg`; rest is what follows
NonPositive(v, msg, rest) ==
    LET Compared(c) ==
            IF c.st = "exc" THEN c
            ELSE IF c.val = Bool(TRUE) THEN Val(Str(msg)) ELSE rest
    IN IF IsNone(v) THEN rest ELSE Compared(PyLe0(v))

validate_order_params(qty, limit_price, stop_price, trail_price) ==
    NonPositive(qty, "Quantity must be greater than 0",
    NonPositive(limit_price, "Limit price must be greater than 0",
    NonPositive(stop_price, "Stop price must be greater than 0",
    NonPositive(trail_price, "Trail price must be greater than 0",
    Val(None)))))

\* a handler that reports a fixed text instead of str(e): C3 must tell it
\* apart from the handler of the code
CaughtGeneric(prefix, m, cs) ==
    [calls |-> cs,
     res |-> Envelope(FALSE, None, Text(T(prefix) \o T("request failed")), "except")]

\* except Exception as e: return XResponse(success=False, error=prefix + str(e))
Caught(prefix, m, cs) ==
    [calls |-> cs, res |-> Envelope(FALSE, None, Text(T(prefix) \o m), "except")]

\* order = self.trading_client.submit_order(order_data=req)
Submit(req, sdk) ==
    LET Logged(sub) == [sub |-> sub, cs |-> <<Call("submit_order", req, sub)>>]
    IN Logged(ClientCall(sdk, IF sdk.shape = "fixture" THEN sdk.order
                              ELSE OrderObj(req, sdk.shape)))

\* the outcome of the try block once the order was submitted: sm is what
\* Submit gave, p the payload built from the returned order
Report(sm, p, prefix) ==
    IF sm.sub.st = "exc" THEN Caught(prefix, sm.sub.msg, sm.cs)
    ELSE IF p.st = "exc" THEN Caught(prefix, p.msg, sm.cs)
    ELSE Success(p.val, sm.cs)

\* the fields common to the payload of every stock order tool
BasePayload(o, extra) ==
    LET \* c holds the conversions in the order the code makes them
        Payload(c) ==
            IF FirstExc(c).st = "exc" THEN FirstExc(c)
            ELSE [st |-> "ok", msg |-> <<>>,
                  val |-> [t |-> "dict", order_id |-> PyStr(o.id),
                           symbol |-> o.symbol, qty |-> c[1].val,
                           side |-> c[2].val, status |-> c[4].val]]
    IN Payload(<<PyFloat(o.qty), PyValue(o.side), extra, PyValue(o.status)>>)

----------------------------------------------------------------------------
(* Stock order tools *)

\* the text shared by the order tools' try blocks before the request is built:
\* side.lower() and time_in_force.lower() raise on a non-string
SideAndTif(a) == FirstExc(<<PyLower(a.side), PyLower(a.time_in_force)>>)

ReqSide(a) == OrderSideOf(PyLower(a.side).val.s)
ReqTif(a) == TIME_IN_FORCE_MAP(PyLower(a.time_in_force).val.s)


place_market_order(a, sdk) ==
    LET Sent(sm) == Report(sm, BasePayload(sm.sub.val, Val(None)), "")
        Tried(pre) ==
            IF pre.st = "exc" THEN Caught("", pre.msg, <<>>)
            ELSE Sent(Submit(OrderReq("MarketOrderRequest", a.symbol, a.qty,
                                      ReqSide(a), ReqTif(a), None, None, None,
                                      None, None, None, None, <<>>), sdk))
        Checked(error) ==
            IF error.st = "exc" THEN Propagated(error.msg, <<>>)
            ELSE IF Truthy(error.val) THEN Invalid(error.val.s, <<>>)
            ELSE Tried(FirstExc(<<SideAndTif(a), Ctor(sdk)>>))
    IN Checked(validate_order_params(a.qty, None, None, None))

place_limit_order(a, sdk) ==
    LET \* lines 401-408: the payload dict
        Priced(b, price) ==
            IF b.st = "exc" THEN b
            ELSE [b EXCEPT !.val = @ @@ [limit_price |-> price.val]]
        Converted(o, price) == Priced(BasePayload(o, price), price)
        limit_order_payload(o) == Converted(o, PyFloat(o.limit_price))
        Sent(sm) == Report(sm, limit_order_payload(sm.sub.val), "")
        Tried(pre) ==
            IF pre.st = "exc" THEN Caught("", pre.msg, <<>>)
            ELSE Sent(Submit(OrderReq("LimitOrderRequest", a.symbol, a.qty,
                                      ReqSide(a), ReqTif(a), a.limit_price, None,
                                      None, None, None, None, None, <<>>), sdk))
        Checked(error) ==
            IF error.st = "exc" THEN Propagated(error.msg, <<>>)
            ELSE IF Truthy(error.val) THEN Invalid(error.val.s, <<>>)
            ELSE Tried(FirstExc(<<SideAndTif(a), Ctor(sdk)>>))
    IN Checked(validate_order_params(a.qty, a.limit_price, None, None))

place_stop_order(a, sdk) ==
    LET \* lines 481-488: the payload dict
        Priced(b, price) ==
            IF b.st = "exc" THEN b
            ELSE [b EXCEPT !.val = @ @@ [stop_price |-> price.val]]
        Converted(o, price) == Priced(BasePayload(o, price), price)
        stop_order_payload(o) == Converted(o, PyFloat(o.stop_price))
        Sent(sm) == Report(sm, stop_order_payload(sm.sub.val), "")
        Tried(pre) ==
            IF pre.st = "exc" THEN Caught("", pre.msg, <<>>)
            ELSE Sent(Submit(OrderReq("StopOrderRequest", a.symbol, a.qty,
                                      ReqSide(a), ReqTif(a), None, a.stop_price,
                                      None, None, None, None, None, <<>>), sdk))
        Checked(error) ==
            IF error.st = "exc" THEN Propagated(error.msg, <<>>)
            ELSE IF Truthy(error.val) THEN Invalid(error.val.s, <<>>)
            ELSE Tried(FirstExc(<<SideAndTif(a), Ctor(sdk)>>))
    IN Checked(validate_order_params(a.qty, None, a.stop_price, None))

\* a payload with the two prices exchanged: C18 must tell it apart from the
\* payload of the code
stop_limit_order_payload_swapped(o) ==
    LET b == BasePayload(o, FirstExc(<<PyFloat(o.stop_price),
                                      PyFloat(o.limit_price)>>))
    IN IF b.st = "exc" THEN b
       ELSE [b EXCEPT !.val = @ @@ [stop_price |-> PyFloat(o.limit_price).val,
                                    limit_price |-> PyFloat(o.stop_price).val]]

stop_limit_order_payload(o) ==
    LET Priced(b, stop, limit) ==
            IF b.st = "exc" THEN b
            ELSE [b EXCEPT !.val = @ @@ [stop_price |-> stop.val,
                                         limit_price |-> limit.val]]
        Converted(stop, limit) ==
            Priced(BasePayload(o, FirstExc(<<stop, limit>>)), stop, limit)
    IN Converted(PyFloat(o.stop_price), PyFloat(o.limit_price))

place_stop_limit_order(a, sdk) ==
    LET Sent(sm) == Report(sm, stop_limit_order_payload(sm.sub.val), "")
        Tried(pre) ==
            IF pre.st = "exc" THEN Caught("", pre.msg, <<>>)
            ELSE Sent(Submit(OrderReq("StopLimitOrderRequest", a.symbol, a.qty,
                                      ReqSide(a), ReqTif(a), a.limit_price,
                                      a.stop_price, None, None, None, None, None,
                                      <<>>), sdk))
        Checked(error) ==
            IF error.st = "exc" THEN Propagated(error.msg, <<>>)
            ELSE IF Truthy(error.val) THEN Invalid(error.val.s, <<>>)
            ELSE Tried(FirstExc(<<SideAndTif(a), Ctor(sdk)>>))
    IN Checked(validate_order_params(a.qty, a.limit_price, a.stop_price, None))

----------------------------------------------------------------------------
(* place_trailing_stop_order *)

\* the two messages of lines 600-609 exchanged: C7 must tell it apart from
\* the code
trail_exclusive_swapped(trail_percent, trail_price) ==
    IF IsNone(trail_percent) /\ IsNone(trail_price)
    THEN Val(Str("Only one of trail_percent or trail_price can be provided, not both"))
    ELSE IF ~IsNone(trail_percent) /\ ~IsNone(trail_price)
    THEN Val(Str("Either trail_percent or trail_price must be provided"))
    ELSE Val(None)

\* lines 600-609: exactly one of trail_percent / trail_price
trail_exclusive(trail_percent, trail_price) ==
    IF IsNone(trail_percent) /\ IsNone(trail_price)
    THEN Val(Str("Either trail_percent or trail_price must be provided"))
    ELSE IF ~IsNone(trail_percent) /\ ~IsNone(trail_price)
    THEN Val(Str("Only one of trail_percent or trail_price can be provided, not both"))
    ELSE Val(None)

\* a payload with the two trail fields exchanged: C6 must tell it apart from
\* the code
trailing_stop_payload_swapped(o) ==
    LET b == BasePayload(o, FirstExc(<<PyFloatOrNone(o.trail_percent),
                                      PyFloatOrNone(o.trail_price)>>))
    IN IF b.st = "exc" THEN b
       ELSE [b EXCEPT !.val = @ @@
                [trail_percent |-> PyFloatOrNone(o.trail_price).val,
                 trail_price |-> PyFloatOrNone(o.trail_percent).val]]

\* lines 625-640: the payload built from the returned order
trailing_stop_payload(o) ==
    LET Trailed(b, percent, price) ==
            IF b.st = "exc" THEN b
            ELSE [b EXCEPT !.val = @ @@ [trail_percent |-> percent.val,
                                         trail_price |-> price.val]]
        Converted(percent, price) ==
            Trailed(BasePayload(o, FirstExc(<<percent, price>>)), percent, price)
    IN Converted(PyFloatOrNone(o.trail_percent), PyFloatOrNone(o.trail_price))

place_trailing_stop_order(a, sdk) ==
    LET \* lines 594-609: the checks made before the try block, in order
        Exclusive(e) ==
            IF e.st = "exc" \/ Truthy(e.val) THEN e
            ELSE NonPositive(a.trail_percent,
                             "Trail percent must be greater than 0",
                             trail_exclusive(a.trail_percent, a.trail_price))
        trailing_stop_validation ==
            Exclusive(validate_order_params(a.qty, None, None, a.trail_price))
        Sent(sm) == Report(sm, trailing_stop_payload(sm.sub.val), "")
        Tried(pre) ==
            IF pre.st = "exc" THEN Caught("", pre.msg, <<>>)
            ELSE Sent(Submit(OrderReq("TrailingStopOrderRequest", a.symbol,
                                      a.qty, ReqSide(a), ReqTif(a), None, None,
                                      a.trail_percent, a.trail_price, None, None,
                                      None, <<>>), sdk))
        Checked(error) ==
            IF error.st = "exc" THEN Propagated(error.msg, <<>>)
            ELSE IF Truthy(error.val) THEN Invalid(error.val.s, <<>>)
            ELSE Tried(FirstExc(<<SideAndTif(a), Ctor(sdk)>>))
    IN Checked(trailing_stop_validation)

----------------------------------------------------------------------------
(* place_bracket_order and place_oco_order *)

\* take_profit={"limit_price": take_profit_limit_price}
TakeProfit(tp) == [t |-> "dict", limit_price |-> tp]

\* a stop_loss dict that always has a limit_price key, null when none was
\* supplied: C24 must tell it apart from the dict of the code
StopLoss_always_limit(sl, sll) == [t |-> "dict", stop_price |-> sl, limit_price |-> sll]

\* stop_loss={"stop_price": sl, **({"limit_price": sll} if sll else {})}
StopLoss(sl, sll) ==
    [t |-> "dict", stop_price |-> sl,
     limit_price |-> IF Truthy(sll) THEN sll ELSE Missing]

\* the two exit-price checks in the opposite order: C9 must tell it apart
\* from the code
exit_prices_validation_stop_first(tp, sll, rest) ==
    NonPositive(sll, "Stop loss limit price must be greater than 0",
        LET c == PyLe0(tp)
        IN IF c.st = "exc" THEN c
           ELSE IF c.val = Bool(TRUE)
           THEN Val(Str("Take profit limit price must be greater than 0"))
           ELSE rest)

\* `if take_profit_limit_price <= 0` (no None guard), then the optional
\* stop-loss limit price
exit_prices_validation(tp, sll, rest) ==
    LET Compared(c) ==
            IF c.st = "exc" THEN c
            ELSE IF c.val = Bool(TRUE)
            THEN Val(Str("Take profit limit price must be greater than 0"))
            ELSE NonPositive(sll, "Stop loss limit price must be greater than 0",
                             rest)
    IN Compared(PyLe0(tp))

\* a request builder that takes the limit entry for "limit" only and the
\* market entry for every other text: C30 must tell it apart from the code
bracket_request_market_default(a) ==
    IF PyLower(a.entry_type).val.s # T("limit")
    THEN OrderReq("MarketOrderRequest", a.symbol, a.qty, ReqSide(a), ReqTif(a),
                  None, None, None, None, "bracket",
                  TakeProfit(a.take_profit_limit_price),
                  StopLoss(a.stop_loss_stop_price, a.stop_loss_limit_price),
                  <<>>)
    ELSE OrderReq("LimitOrderRequest", a.symbol, a.qty, ReqSide(a), ReqTif(a),
                  a.entry_limit_price, None, None, None, "bracket",
                  TakeProfit(a.take_profit_limit_price),
                  StopLoss(a.stop_loss_stop_price, a.stop_loss_limit_price),
                  <<>>)

\* lines 728-755: market entry iff entry_type.lower() == "market"
bracket_request(a) ==
    IF PyLower(a.entry_type).val.s = T("market")
    THEN OrderReq("MarketOrderRequest", a.symbol, a.qty, ReqSide(a), ReqTif(a),
                  None, None, None, None, "bracket",
                  TakeProfit(a.take_profit_limit_price),
                  StopLoss(a.stop_loss_stop_price, a.stop_loss_limit_price),
                  <<>>)
    ELSE OrderReq("LimitOrderRequest", a.symbol, a.qty, ReqSide(a), ReqTif(a),
                  a.entry_limit_price, None, None, None, "bracket",
                  TakeProfit(a.take_profit_limit_price),
                  StopLoss(a.stop_loss_stop_price, a.stop_loss_limit_price),
                  <<>>)

place_bracket_order(a, sdk) ==
    LET Extended(b) ==
            IF b.st = "exc" THEN b
            ELSE [b EXCEPT !.val = @ @@
                     [entry_type |-> a.entry_type,
                      entry_limit_price |-> a.entry_limit_price,
                      take_profit_limit_price |-> a.take_profit_limit_price,
                      stop_loss_stop_price |-> a.stop_loss_stop_price,
                      stop_loss_limit_price |-> a.stop_loss_limit_price,
                      order_class |-> "bracket"]]
        Payload(o) == Extended(BasePayload(o, Val(None)))
        Sent(sm) == Report(sm, Payload(sm.sub.val), "")
        Tried(pre) ==
            IF pre.st = "exc" THEN Caught("", pre.msg, <<>>)
            ELSE Sent(Submit(bracket_request(a), sdk))
        Checked(error) ==
            IF error.st = "exc" THEN Propagated(error.msg, <<>>)
            ELSE IF Truthy(error.val) THEN Invalid(error.val.s, <<>>)
            ELSE Tried(FirstExc(<<SideAndTif(a), Ctor(sdk)>>))
        \* lines 715-719: entry_type.lower() == "limit" and
        \* entry_limit_price is None
        Required(l) ==
            IF l.st = "exc" THEN l
            ELSE IF l.val.s = T("limit") /\ IsNone(a.entry_limit_price)
            THEN Val(Str("entry_limit_price is required when entry_type is 'limit'"))
            ELSE Val(None)
        \* lines 707-719: the checks made before the try block, in order
        Exits(error, entry_price_required) ==
            IF error.st = "exc" \/ Truthy(error.val) THEN error
            ELSE exit_prices_validation(
                     a.take_profit_limit_price, a.stop_loss_limit_price,
                     entry_price_required)
    IN Checked(Exits(validate_order_params(a.qty, a.entry_limit_price,
                                           a.stop_loss_stop_price, None),
                     Required(PyLower(a.entry_type))))

place_oco_order(a, sdk) ==
    LET \* lines 835-841: the checks made before the try block, in order
        Exits(e) ==
            IF e.st = "exc" \/ Truthy(e.val) THEN e
            ELSE exit_prices_validation(a.take_profit_limit_price,
                                        a.stop_loss_limit_price, Val(None))
        oco_validation ==
            Exits(validate_order_params(a.qty, None, a.stop_loss_stop_price,
                                        None))
        Extended(b) ==
            IF b.st = "exc" THEN b
            ELSE [b EXCEPT !.val = @ @@
                     [take_profit_limit_price |-> a.take_profit_limit_price,
                      stop_loss_stop_price |-> a.stop_loss_stop_price,
                      stop_loss_limit_price |-> a.stop_loss_limit_price,
                      order_class |-> "oco"]]
        Payload(o) == Extended(BasePayload(o, Val(None)))
        Sent(sm) == Report(sm, Payload(sm.sub.val), "")
        Tried(pre) ==
            IF pre.st = "exc" THEN Caught("", pre.msg, <<>>)
            ELSE Sent(Submit(OrderReq("LimitOrderRequest", a.symbol, a.qty,
                                      ReqSide(a), ReqTif(a),
                                      a.take_profit_limit_price, None, None, None,
                                      "oco", TakeProfit(a.take_profit_limit_price),
                                      StopLoss(a.stop_loss_stop_price,
                                               a.stop_loss_limit_price), <<>>),
                             sdk))
        Checked(error) ==
            IF error.st = "exc" THEN Propagated(error.msg, <<>>)
            ELSE IF Truthy(error.val) THEN Invalid(error.val.s, <<>>)
            ELSE Tried(FirstExc(<<SideAndTif(a), Ctor(sdk)>>))
    IN Checked(oco_validation)

----------------------------------------------------------------------------
(* cancel_order, close_position, close_all_positions *)

cancel_order(a, sdk) ==
    LET r == ClientCall(sdk, None)
        cs == <<Call("cancel_order_by_id", [order_id |-> a.order_id], r)>>
    IN IF r.st = "exc" THEN Caught("", r.msg, cs)
       ELSE Success([t |-> "dict",
                     message |-> Text(T("Order ") \o TextOf(a.order_id)
                                      \o T(" cancelled successfully"))], cs)

\* the upper end of the percentage range
PctMax == 100

\* a range check that also refuses PctMax itself: C8 must tell it apart
\* from the code
percentage_out_of_range_open(percentage) ==
    IF IsNone(percentage) THEN Val(None)
    ELSE LET lo == PyLe0(percentage)
         IN IF lo.st = "exc" THEN lo
            ELSE IF lo.val = Bool(TRUE) \/ NumCompared(percentage, PctMax) \in {0, 1}
            THEN Val(Str("Percentage must be between 0 and 100"))
            ELSE Val(None)

\* percentage is not None and (percentage <= 0 or percentage > 100): a
\* value that "<= 0" takes is a number, which "> 100" takes as well
percentage_out_of_range(percentage) ==
    LET Ranged(lo) ==
            IF lo.st = "exc" THEN lo
            ELSE IF lo.val = Bool(TRUE) \/ NumCompared(percentage, PctMax) = 1
            THEN Val(Str("Percentage must be between 0 and 100"))
            ELSE Val(None)
    IN IF IsNone(percentage) THEN Val(None) ELSE Ranged(PyLe0(percentage))

\* lines 919-927: the checks made before the try block, in order
close_position_validation(a) ==
    IF ~IsNone(a.qty) /\ ~IsNone(a.percentage)
    THEN Val(Str("Only one of qty or percentage can be provided, not both"))
    ELSE NonPositive(a.qty, "Quantity must be greater than 0",
                     percentage_out_of_range(a.percentage))

\* lines 933-939: the close_options argument handed to the SDK
close_options(qty, percentage) ==
    IF ~IsNone(qty)
    THEN [t |-> "dict", qty |-> PyStr(qty), percentage |-> Missing]
    ELSE IF ~IsNone(percentage)
    THEN [t |-> "dict", qty |-> Missing, percentage |-> PyStr(percentage)]
    ELSE None

\* the closing order the brokerage returns
ClosingOrder(symbol, sdk) ==
    IF sdk.shape = "fixture" THEN sdk.order
    ELSE OrderObj(OrderReq("MarketOrderRequest", symbol, Num(1), "SELL", "DAY",
                           None, None, None, None, None, None, None, <<>>),
                  sdk.shape)

\* close_position with the checks of lines 919-927 moved after the SDK call:
\* C5 must tell it apart from the code
close_position_call_first(a, sdk) ==
    LET r == ClientCall(sdk, ClosingOrder(a.symbol, sdk))
        cs == <<Call("close_position",
                     [symbol |-> a.symbol,
                      close_options |-> close_options(a.qty, a.percentage)],
                     r)>>
        error == close_position_validation(a)
    IN IF r.st = "exc" THEN Caught("Failed to close position: ", r.msg, cs)
       ELSE IF error.st = "exc" THEN Caught("Failed to close position: ", error.msg, cs)
       ELSE IF Truthy(error.val) THEN Invalid(error.val.s, cs)
       ELSE Success([t |-> "dict", symbol |-> a.symbol], cs)

close_position(a, sdk) ==
    LET Answered(b, cs) ==
            IF b.st = "exc" THEN Caught("Failed to close position: ", b.msg, cs)
            ELSE Success(b.val @@
                         [message |-> Text(T("Position close order submitted for ")
                                           \o TextOf(a.symbol))], cs)
        Called(r, cs) ==
            IF r.st = "exc" THEN Caught("Failed to close position: ", r.msg, cs)
            ELSE Answered(BasePayload(r.val, Val(None)), cs)
        Closed(r) ==
            Called(r, <<Call("close_position",
                             [symbol |-> a.symbol,
                              close_options |-> close_options(a.qty, a.percentage)],
                             r)>>)
        Checked(error) ==
            IF error.st = "exc" THEN Propagated(error.msg, <<>>)
            ELSE IF Truthy(error.val) THEN Invalid(error.val.s, <<>>)
            ELSE Closed(ClientCall(sdk, ClosingOrder(a.symbol, sdk)))
    IN Checked(close_position_validation(a))

\* What the client returns is a list or a value.  An element of the list is an
\* object [cls, body, symbol, id, str], where cls names its class, str is what
\* str() writes of it and an attribute it lacks is Missing, or it is a value;
\* a body is an object [cls, symbol, id] or a value
close_all_positions(a, sdk, results) ==
    LET r == ClientCall(sdk, results)
        cs == <<Call("close_all_positions",
                     [cancel_orders |-> a.cancel_orders], r)>>
        hasattr(x, name) == "cls" \in DOMAIN x /\ x[name] # Missing
        \* a text is a sequence of its characters
        items == CASE results.t = "list" -> results.items
                   [] results.t \in {"str", "enum"} ->
                        [i \in 1..Len(results.s) |-> Text(<<results.s[i]>>)] \o <<>>
                   [] OTHER -> <<>>
        \* {"symbol": x.symbol, "order_id": str(x.id)}
        closed(x) ==
            IF x.id = Missing
            THEN Exc(T("'") \o T(x.cls) \o T("' object has no attribute 'id'"))
            ELSE Val([t |-> "dict", symbol |-> x.symbol, order_id |-> PyStr(x.id)])
        \* lines 972-986: what one result appends, and to which list
        appended(x) ==
            CASE hasattr(x, "body") /\ hasattr(x.body, "symbol") ->
                   [closed |-> TRUE, r |-> closed(x.body)]
              [] hasattr(x, "symbol") -> [closed |-> TRUE, r |-> closed(x)]
              [] OTHER ->
                   [closed |-> FALSE,
                    r |-> Val(IF "cls" \in DOMAIN x THEN Str(x.str) ELSE PyStr(x))]
        all == [i \in DOMAIN items |-> appended(items[i])]
        raised == {i \in DOMAIN items : all[i].r.st = "exc"}
        Of(is_closed) ==
            LET kept == SelectSeq(all, LAMBDA e : e.closed = is_closed)
            IN [i \in DOMAIN kept |-> kept[i].r.val] \o <<>>
        Partitioned(closed_positions, failed_positions) ==
            Success([t |-> "dict", closed_count |-> Len(closed_positions),
                     failed_count |-> Len(failed_positions),
                     closed_positions |-> closed_positions,
                     failed_positions |-> failed_positions,
                     message |->
                         Text(T("Closed ") \o IntText(Len(closed_positions))
                              \o T(" positions")
                              \o (IF failed_positions # <<>>
                                  THEN T(", ") \o IntText(Len(failed_positions))
                                       \o T(" failed")
                                  ELSE <<>>))], cs)
    IN IF r.st = "exc"
       THEN Caught("Failed to close all positions: ", r.msg, cs)
       \* line 968: len(results)
       ELSE IF results.t \notin {"list", "str", "enum"}
       THEN Caught("Failed to close all positions: ",
                   T("object of type '") \o TypeName(results)
                   \o T("' has no len()"), cs)
       ELSE IF raised # {}
       THEN Caught("Failed to close all positions: ",
                   all[Least(raised)].r.msg, cs)
       ELSE Partitioned(Of(TRUE), Of(FALSE))

----------------------------------------------------------------------------
(* place_option_order and place_multi_leg_option_order *)


\* OptionLegRequest(symbol, ratio_qty, side, position_intent)
OptionLegRequest(symbol, ratio_qty, side, intent) ==
    [symbol |-> symbol, ratio_qty |-> ratio_qty, side |-> side,
     position_intent |-> intent]

\* the payload dict of both option order tools (without "legs")
option_order_payload(o) ==
    LET \* c holds the conversions in the order the code makes them
        Payload(c) ==
            IF FirstExc(c).st = "exc" THEN FirstExc(c)
            ELSE [st |-> "ok", msg |-> <<>>,
                  val |-> [t |-> "dict", order_id |-> PyStr(o.id),
                           symbol |-> o.symbol, qty |-> c[1].val,
                           side |-> PyValueOrSelf(o.side),
                           order_type |-> PyValueOrSelf(o.order_type),
                           status |-> PyValueOrSelf(o.status),
                           limit_price |-> c[2].val]]
    IN Payload(<<PyFloat(o.qty), PyFloatOrNone(o.limit_price)>>)

\* lines 1357-1381 / 1453-1477: the request by order type, or the message of
\* the failure envelope returned instead
option_order_request(order_type, limit_price, symbol, qty, side, tif, order_class, legs) ==
    LET Typed(l) ==
            IF l.st = "exc" THEN l
            ELSE IF l.val.s = T("market")
            THEN [st |-> "ok", msg |-> <<>>,
                  val |-> OrderReq("MarketOrderRequest", symbol, qty, side, tif,
                                   None, None, None, None, order_class, None,
                                   None, legs)]
            ELSE IF l.val.s = T("limit")
            THEN IF IsNone(limit_price)
                 THEN [st |-> "invalid",
                       msg |-> T("Limit price required for limit orders"),
                       val |-> None]
                 ELSE [st |-> "ok", msg |-> <<>>,
                       val |-> OrderReq("LimitOrderRequest", symbol, qty, side,
                                        tif, limit_price, None, None, None,
                                        order_class, None, None, legs)]
            ELSE [st |-> "invalid",
                  msg |-> T("Unsupported order type: ") \o TextOf(order_type),
                  val |-> None]
    IN Typed(PyLower(order_type))

place_option_order(a, sdk) ==
    LET Sent(sm) == Report(sm, option_order_payload(sm.sub.val), "")
        Requested(req) ==
            IF req.st = "exc" THEN Caught("", req.msg, <<>>)
            ELSE IF req.st = "invalid" THEN Invalid(req.msg, <<>>)
            ELSE Sent(Submit(req.val, sdk))
        Sided(side, intent) ==
            Requested(option_order_request(
                          a.order_type, a.limit_price, a.symbol, a.qty, side,
                          ReqTif(a), "simple",
                          <<OptionLegRequest(a.symbol, Flt(1), side, intent)>>))
        Resolved(intent) ==
            IF IsNone(intent)
            THEN Invalid(T("Invalid position_intent: ") \o TextOf(a.position_intent)
                         \o T(". Must be one of: buy_to_open, buy_to_close, sell_to_open, sell_to_close"),
                         <<>>)
            ELSE IF Ctor(sdk).st = "exc" THEN Caught("", Ctor(sdk).msg, <<>>)
            ELSE Sided(ReqSide(a), intent)
        Tried(pre) ==
            IF pre.st = "exc" THEN Caught("", pre.msg, <<>>)
            ELSE Resolved(POSITION_INTENT_MAP(pre.val.s))
    IN Tried(FirstExc(<<SideAndTif(a), PyLower(a.position_intent)>>))

\* leg[key]: KeyError when the key is absent
Subscript(leg, key) ==
    IF leg[key].t = "missing" THEN Exc(T("'") \o T(key) \o T("'")) ELSE Val(leg[key])

\* leg.get("position_intent", "")
IntentOf(leg) ==
    IF leg.position_intent.t = "missing" THEN Str("") ELSE leg.position_intent

\* a loop body that counts legs from one: C10 must tell it apart from the code
option_leg_one_based(i, leg, sdk) ==
    LET sd == Subscript(leg, "side")
        low == IF sd.st = "exc" THEN sd ELSE PyLower(sd.val)
        key == IF low.st = "exc" THEN low ELSE PyLower(IntentOf(leg))
    IN IF key.st = "exc" THEN key
       ELSE IF IsNone(POSITION_INTENT_MAP(key.val.s))
       THEN [st |-> "invalid",
             msg |-> T("Invalid position_intent in leg ") \o IntText(i + 1) \o T(": ")
                     \o TextOf(leg.position_intent)
                     \o T(". Must be one of: buy_to_open, buy_to_close, sell_to_open, sell_to_close"),
             val |-> None]
       ELSE [st |-> "ok", msg |-> <<>>,
             val |-> OptionLegRequest(leg.symbol, leg.ratio_qty,
                                      OrderSideOf(low.val.s),
                                      POSITION_INTENT_MAP(key.val.s))]

\* lines 1429-1445, the loop body for the leg at (0-based) index i: the leg
\* request, a failure envelope's message ("invalid"), or an exception
option_leg(i, leg, sdk) ==
    LET Built(sym, rq, low, key) ==
            IF FirstExc(<<rq, Ctor(sdk)>>).st = "exc"
            THEN FirstExc(<<rq, Ctor(sdk)>>)
            ELSE [st |-> "ok", msg |-> <<>>,
                  val |-> OptionLegRequest(sym.val, rq.val,
                                           OrderSideOf(low.val.s),
                                           POSITION_INTENT_MAP(key.val.s))]
        Ratio(r) == IF r.st = "exc" THEN r ELSE PyFloat(r.val)
        Named(sym, low, key) ==
            Built(sym,
                  IF sym.st = "exc" THEN sym
                  ELSE Ratio(Subscript(leg, "ratio_qty")),
                  low, key)
        Keyed(low, key) ==
            IF key.st = "exc" THEN key
            ELSE IF IsNone(POSITION_INTENT_MAP(key.val.s))
            THEN [st |-> "invalid",
                  msg |-> T("Invalid position_intent in leg ") \o IntText(i)
                          \o T(": ") \o TextOf(leg.position_intent)
                          \o T(". Must be one of: buy_to_open, buy_to_close, sell_to_open, sell_to_close"),
                  val |-> None]
            ELSE Named(Subscript(leg, "symbol"), low, key)
        Lowered(low) ==
            Keyed(low, IF low.st = "exc" THEN low ELSE PyLower(IntentOf(leg)))
        Sided(sd) == Lowered(IF sd.st = "exc" THEN sd ELSE PyLower(sd.val))
    IN Sided(Subscript(leg, "side"))

\* a loop that puts each new leg request in front of the ones built so far:
\* C23 must tell it apart from the loop of the code
RECURSIVE option_legs_prepending(_, _, _, _)
option_legs_prepending(legs, i, acc, sdk) ==
    IF i >= Len(legs) THEN [st |-> "ok", msg |-> <<>>, val |-> acc]
    ELSE LET l == option_leg(i, legs[i + 1], sdk)
         IN IF l.st # "ok" THEN [st |-> l.st, msg |-> l.msg, val |-> <<>>]
            ELSE option_legs_prepending(legs, i + 1, <<l.val>> \o acc, sdk)

\* the loop over enumerate(legs) from index i on, option_legs built so far in
\* acc: stops at the first leg that fails
RECURSIVE option_legs(_, _, _, _)
option_legs(legs, i, acc, sdk) ==
    LET Added(l) ==
            IF l.st # "ok" THEN [st |-> l.st, msg |-> l.msg, val |-> <<>>]
            ELSE option_legs(legs, i + 1, Append(acc, l.val), sdk)
    IN IF i >= Len(legs) THEN [st |-> "ok", msg |-> <<>>, val |-> acc]
       ELSE Added(option_leg(i, legs[i + 1], sdk))

place_multi_leg_option_order(a, sdk) ==
    LET PyAbs(v) ==
            IF v.t = "bool" THEN Val(Num(NumSign(v)))
            ELSE IF v.t \in {"int", "float"}
            THEN Val([v EXCEPT !.s = IF v.s[1] = 45 THEN Tail(v.s) ELSE v.s])
            ELSE Exc(T("bad operand type for abs(): '") \o TypeName(v) \o T("'"))
        Counted(b, ls) ==
            IF b.st = "exc" THEN b
            ELSE [b EXCEPT !.val = @ @@
                     [order_class |-> "multi_leg", legs |-> Len(ls.val)]]
        Sent(sm, ls) ==
            Report(sm, Counted(option_order_payload(sm.sub.val), ls), "")
        Requested(req, ls) ==
            IF req.st = "exc" THEN Caught("", req.msg, <<>>)
            ELSE IF req.st = "invalid" THEN Invalid(req.msg, <<>>)
            ELSE Sent(Submit(req.val, sdk), ls)
        Totalled(total_qty, ls) ==
            Requested(IF total_qty.st = "exc" THEN total_qty
                      ELSE option_order_request(
                               a.order_type, a.limit_price, a.legs[1].symbol,
                               total_qty.val, "BUY", ReqTif(a), "mleg", ls.val),
                      ls)
        Legged(ls) ==
            IF ls.st = "exc" THEN Caught("", ls.msg, <<>>)
            ELSE IF ls.st = "invalid" THEN Invalid(ls.msg, <<>>)
            ELSE Totalled(PyAbs(a.legs[1].ratio_qty), ls)
        Timed(tif) ==
            Legged(IF tif.st = "exc" THEN tif
                   ELSE option_legs(a.legs, 0, <<>>, sdk))
    IN IF Len(a.legs) = 0 THEN Invalid(T("At least one leg is required"), <<>>)
       ELSE Timed(PyLower(a.time_in_force))

----------------------------------------------------------------------------
(* Account, positions and orders *)

get_account_info(sdk, account) ==
    LET \* v or 0
        PyOr0(v) == IF Truthy(v) THEN v ELSE Num(0)
        r == ClientCall(sdk, account)
        cs == <<Call("get_account", None, r)>>
        \* c holds the conversions in the order the code makes them
        Info(c) ==
            IF FirstExc(c).st = "exc" THEN Caught("", FirstExc(c).msg, cs)
            ELSE Success(
                [t |-> "AccountInfo",
                 account_id |-> PyStr(account.id),
                 cash |-> c[1].val,
                 buying_power |-> c[2].val,
                 portfolio_value |-> c[3].val,
                 equity |-> c[4].val,
                 long_market_value |-> c[5].val,
                 short_market_value |-> c[6].val,
                 initial_margin |-> c[7].val,
                 maintenance_margin |-> c[8].val,
                 last_equity |-> c[9].val,
                 daytrade_count |-> PyOr0(account.daytrade_count)], cs)
    IN IF r.st = "exc" THEN Caught("", r.msg, cs)
       ELSE Info(<<PyFloat(account.cash),
                   PyFloat(account.buying_power),
                   PyFloat(account.portfolio_value),
                   PyFloat(account.equity),
                   PyFloat(PyOr0(account.long_market_value)),
                   PyFloat(PyOr0(account.short_market_value)),
                   PyFloat(PyOr0(account.initial_margin)),
                   PyFloat(PyOr0(account.maintenance_margin)),
                   PyFloat(account.last_equity)>>)

\* `for x in xs: out.append(f(x))` over the per-element outcomes rs: the list
\* built, or the first exception
Collect(rs) ==
    LET f == IF DOMAIN rs = {} THEN Val(None) ELSE FirstExc(rs)
    IN IF f.st = "exc" THEN [st |-> "exc", msg |-> f.msg, val |-> <<>>]
       ELSE [st |-> "ok", msg |-> <<>>, val |-> [i \in DOMAIN rs |-> rs[i].val]]

\* a payload that is null when there are no items: C14 must tell it apart
\* from the list payload of the code
List_null_when_empty(items) ==
    IF items = <<>> THEN None ELSE [t |-> "list", items |-> items]

\* a list payload
List(items) == [t |-> "list", items |-> items]

get_positions(sdk, positions) ==
    LET \* lines 213-225: one Position from one SDK position
        position_entity(pos) ==
            LET \* c holds the conversions in the order the code makes them
                Entity(c) ==
                    IF FirstExc(c).st = "exc" THEN FirstExc(c)
                    ELSE [st |-> "ok", msg |-> <<>>,
                          val |-> [t |-> "Position", symbol |-> pos.symbol,
                                   quantity |-> c[1].val,
                                   side |-> c[2].val,
                                   market_value |-> c[3].val,
                                   cost_basis |-> c[4].val,
                                   unrealized_pl |-> c[5].val,
                                   unrealized_plpc |-> c[6].val,
                                   current_price |-> c[7].val,
                                   qty_available |-> c[8].val]]
            IN Entity(<<PyFloat(pos.qty), PyValue(pos.side),
                        PyFloat(pos.market_value), PyFloat(pos.cost_basis),
                        PyFloat(pos.unrealized_pl), PyFloat(pos.unrealized_plpc),
                        PyFloat(pos.current_price), PyFloatOrNone(pos.qty_available)>>)
        r == ClientCall(sdk, positions)
        cs == <<Call("get_all_positions", None, r)>>
        Listed(m) ==
            IF m.st = "exc" THEN Caught("", m.msg, cs)
            ELSE Success(List(m.val), cs)
    IN IF r.st = "exc" THEN Caught("", r.msg, cs)
       ELSE Listed(Collect([i \in DOMAIN positions |->
                               position_entity(positions[i])]))

\* lines 258-281 and 300-313: one Order from one SDK order
order_entity(order) ==
    LET \* c holds the conversions in the order the code makes them
        Entity(c) ==
            IF FirstExc(c).st = "exc" THEN FirstExc(c)
            ELSE [st |-> "ok", msg |-> <<>>,
                  val |-> [t |-> "Order", id |-> PyStr(order.id),
                           symbol |-> order.symbol,
                           qty |-> c[1].val,
                           side |-> PyValueOrSelf(order.side),
                           order_type |-> PyValueOrSelf(order.order_type),
                           status |-> PyValueOrSelf(order.status),
                           submitted_at |-> order.submitted_at,
                           filled_at |-> order.filled_at,
                           filled_qty |-> c[2].val,
                           filled_avg_price |-> c[3].val,
                           limit_price |-> c[4].val,
                           stop_price |-> c[5].val]]
    IN Entity(<<PyFloat(order.qty), PyFloatOrNone(order.filled_qty),
                PyFloatOrNone(order.filled_avg_price),
                PyFloatOrNone(order.limit_price),
                PyFloatOrNone(order.stop_price)>>)

get_orders(a, sdk, orders) ==
    LET \* symbols.split(",") if symbols else None
        order_symbol_list(symbols) ==
            IF ~Truthy(symbols) THEN Val(None)
            ELSE IF symbols.t \notin {"str", "enum"}
            THEN Exc(T("'") \o TypeName(symbols)
                     \o T("' object has no attribute 'split'"))
            ELSE [st |-> "ok", msg |-> <<>>, val |-> List(SplitComma(symbols.s))]
        Listed(m, cs) ==
            IF m.st = "exc" THEN Caught("", m.msg, cs)
            ELSE Success(List(m.val), cs)
        Called(r, cs) ==
            IF r.st = "exc" THEN Caught("", r.msg, cs)
            ELSE Listed(Collect([i \in DOMAIN orders |->
                                    order_entity(orders[i])]), cs)
        Requested(r, syms) ==
            Called(r, <<Call("get_orders",
                             [status |-> a.status, limit |-> a.limit,
                              symbols |-> syms.val], r)>>)
        Tried(pre, syms) ==
            IF pre.st = "exc" THEN Caught("", pre.msg, <<>>)
            ELSE Requested(ClientCall(sdk, orders), syms)
        Split(syms) == Tried(FirstExc(<<syms, Ctor(sdk)>>), syms)
    IN Split(order_symbol_list(a.symbols))

get_order(a, sdk, order) ==
    LET r == ClientCall(sdk, order)
        cs == <<Call("get_order_by_id", [order_id |-> a.order_id], r)>>
        Found(e) ==
            IF e.st = "exc" THEN Caught("Order not found or error: ", e.msg, cs)
            ELSE Success(e.val, cs)
    IN IF r.st = "exc" THEN Caught("Order not found or error: ", r.msg, cs)
       ELSE Found(order_entity(order))

----------------------------------------------------------------------------
(* Market data *)

\* a normalisation that upper-cases without trimming: C17 must tell it apart
\* from the normalisation of the code
RECURSIVE StripUpperAll_no_strip(_)
StripUpperAll_no_strip(items) ==
    IF items = <<>> THEN <<>>
    ELSE <<UpperText(Head(items))>> \o StripUpperAll_no_strip(Tail(items))

\* [s.strip().upper() for s in symbols.split(",")]
RECURSIVE StripUpperAll(_)
StripUpperAll(items) ==
    IF items = <<>> THEN <<>>
    ELSE <<UpperText(StripText(Head(items)))>> \o StripUpperAll(Tail(items))

symbol_list(symbols) ==
    IF symbols.t \notin {"str", "enum"}
    THEN Exc(T("'") \o TypeName(symbols) \o T("' object has no attribute 'split'"))
    ELSE [st |-> "ok", msg |-> <<>>,
          val |-> List(StripUpperAll(SplitComma(symbols.s)))]

get_latest_quotes(a, sdk, quotes) ==
    LET \* lines 1017-1024: one QuoteData from one (symbol, quote) item
        quote_entity(q) ==
            LET \* c holds the conversions in the order the code makes them
                Entity(c) ==
                    IF FirstExc(c).st = "exc" THEN FirstExc(c)
                    ELSE [st |-> "ok", msg |-> <<>>,
                          val |-> [t |-> "QuoteData", symbol |-> q.symbol,
                                   bid_price |-> c[1].val,
                                   ask_price |-> c[2].val,
                                   bid_size |-> c[3].val,
                                   ask_size |-> c[4].val,
                                   timestamp |-> q.timestamp]]
            IN Entity(<<PyFloatOrNone(q.bid_price), PyFloatOrNone(q.ask_price),
                        IF Truthy(q.bid_size) THEN PyInt(q.bid_size) ELSE Val(None),
                        IF Truthy(q.ask_size) THEN PyInt(q.ask_size) ELSE Val(None)>>)
        Listed(m, cs) ==
            IF m.st = "exc" THEN Caught("", m.msg, cs)
            ELSE Success(List(m.val), cs)
        Called(r, cs) ==
            IF r.st = "exc" THEN Caught("", r.msg, cs)
            ELSE Listed(Collect([i \in DOMAIN quotes |->
                                    quote_entity(quotes[i])]), cs)
        Requested(r, syms) ==
            Called(r, <<Call("get_stock_latest_quote",
                             [symbol_or_symbols |-> syms.val], r)>>)
        Tried(pre, syms) ==
            IF pre.st = "exc" THEN Caught("", pre.msg, <<>>)
            ELSE Requested(ClientCall(sdk, quotes), syms)
        Split(syms) == Tried(FirstExc(<<syms, Ctor(sdk)>>), syms)
    IN Split(symbol_list(a.symbols))

\* datetime.fromisoformat(date_string) of Python 3.11, which reads the
\* UTF-8 bytes of the text: the date as YYYY-MM-DD, YYYYMMDD or an ISO week
\* date, then optionally one separator character, the time
\* HH[:MM[:SS[.f+]]] (or without colons) and an offset Z or
\* +HH[:MM[:SS[.f+]]].  The value is the datetime, written as its
\* isoformat() text; a text that does not parse, or a component out of
\* range, raises ValueError
fromisoformat(date_string) ==
    LET chars == date_string.s
        IsSurrogate(c) == 55296 <= c /\ c <= 57343
        \* _sanitize_isoformat_str: the first surrogate at a place where the
        \* separator can stand is read as "T"
        Sanitized(places) ==
            IF places = {} THEN chars ELSE [chars EXCEPT ![Least(places)] = 84]
        clean == Sanitized({i \in {8, 9, 11} : i <= Len(chars) /\ IsSurrogate(chars[i])})
        Utf8(c) ==
            IF c < 128 THEN <<c>>
            ELSE IF c < 2048 THEN <<192 + (c \div 64), 128 + (c % 64)>>
            ELSE IF c < 65536
            THEN <<224 + (c \div 4096), 128 + ((c \div 64) % 64), 128 + (c % 64)>>
            ELSE <<240 + (c \div 262144), 128 + ((c \div 4096) % 64),
                   128 + ((c \div 64) % 64), 128 + (c % 64)>>
        s == Flat([i \in 1..Len(clean) |-> Utf8(clean[i])], 1, Len(clean))
        len == Len(s)
        \* the byte at i; the bytes end with a zero
        At(i) == IF 1 <= i /\ i <= len THEN s[i] ELSE 0
        IsDigit(c) == 48 <= c /\ c <= 57
        \* parse_digits: the value of k digits from position i, -1 if one of
        \* them is not a digit
        Digits(i, k) ==
            LET Place(j) == IF j < k THEN (At(i + k - 1 - j) - 48) * (10 ^ j) ELSE 0
            IN IF \E j \in i..(i + k - 1) : ~IsDigit(At(j)) THEN -1
               ELSE Place(0) + Place(1) + Place(2) + Place(3) + Place(4) + Place(5)
        Pad(n, w) ==
            LET Filled(t) ==
                    [i \in 1..(IF w > Len(t) THEN w - Len(t) ELSE 0) |-> 48] \o t
            IN Filled(IntText(n))
        invalid == Exc(T("Invalid isoformat string: ") \o Repr(date_string))
        \* calendar arithmetic
        is_leap(y) == y % 4 = 0 /\ (y % 100 # 0 \/ y % 400 = 0)
        days_in_month(y, m) ==
            CASE m \in {4, 6, 9, 11} -> 30
              [] m = 2 -> IF is_leap(y) THEN 29 ELSE 28
              [] OTHER -> 31
        days_before_year(y) ==
            (y - 1) * 365 + (y - 1) \div 4 - (y - 1) \div 100 + (y - 1) \div 400
        RECURSIVE days_before_month(_, _)
        days_before_month(y, m) ==
            IF m = 1 THEN 0
            ELSE days_before_month(y, m - 1) + days_in_month(y, m - 1)
        ymd_to_ord(y, m, d) == days_before_year(y) + days_before_month(y, m) + d
        RECURSIVE MonthOf(_, _, _)
        MonthOf(y, m, n) ==
            IF n < days_in_month(y, m) THEN [year |-> y, month |-> m, day |-> n + 1]
            ELSE MonthOf(y, m + 1, n - days_in_month(y, m))
        ord_to_ymd(ordinal) ==
            LET o == ordinal - 1
                n400 == o \div 146097
                r400 == o % 146097
                n100 == r400 \div 36524
                r100 == r400 % 36524
                n4 == r100 \div 1461
                r4 == r100 % 1461
                n1 == r4 \div 365
                n == r4 % 365
                y == n400 * 400 + 1 + n100 * 100 + n4 * 4 + n1
            IN IF n1 = 4 \/ n100 = 4
               THEN [year |-> y - 1, month |-> 12, day |-> 31]
               ELSE MonthOf(y, 1, n)
        \* _find_isoformat_datetime_separator
        separator_location ==
            IF len = 7 THEN 7
            ELSE IF At(5) = 45
            THEN IF At(6) = 87
                 THEN IF len > 8 /\ At(9) = 45
                      THEN IF len = 9 THEN 10
                           ELSE IF len > 10 /\ IsDigit(At(11)) THEN 8 ELSE 10
                      ELSE 8
                 ELSE 10
            ELSE IF At(5) = 87
            THEN LET stops == {i \in 8..len : ~IsDigit(At(i))}
                     idx == IF stops = {} THEN len ELSE Least(stops) - 1
                 IN IF idx < 9 THEN idx ELSE IF idx % 2 = 0 THEN 7 ELSE 8
            ELSE 8
        \* parse_isoformat_date over the first separator_location bytes
        \* a week of the year 0000 lies before the first day the calendar
        \* counts: the date computed for it is of year 1 with a month below 1
        IsoWeek(year, week, iso_day, first_weekday, bad_sep) ==
            IF \/ week < 0
               \/ bad_sep
               \/ iso_day < 0
               \/ week = 0
               \/ week > 53
               \/ /\ week = 53
                  /\ \/ year = 0
                     \/ ~(first_weekday = 3 \/ (first_weekday = 2 /\ is_leap(year)))
               \/ iso_day = 0 \/ iso_day > 7
            THEN [ok |-> FALSE]
            ELSE IF year = 0 THEN [ok |-> TRUE, year |-> 1, month |-> 0, day |-> 1]
            ELSE [ok |-> TRUE] @@
                 ord_to_ymd(ymd_to_ord(year, 1, 1) - first_weekday
                            + (IF first_weekday > 3 THEN 7 ELSE 0)
                            + (week - 1) * 7 + iso_day - 1)
        Calendar(year, month, day, bad_sep) ==
            IF month < 0 \/ bad_sep \/ day < 0 THEN [ok |-> FALSE]
            ELSE [ok |-> TRUE, year |-> year, month |-> month, day |-> day]
        DateAt(year, sep, p, has_day) ==
            IF year < 0 THEN [ok |-> FALSE]
            ELSE IF At(p) = 87
            THEN IsoWeek(year, Digits(p + 1, 2),
                         IF has_day THEN Digits(p + 3 + sep, 1) ELSE 1,
                         (ymd_to_ord(year, 1, 1) + 6) % 7,
                         has_day /\ sep = 1 /\ At(p + 3) # 45)
            ELSE Calendar(year, Digits(p, 2), Digits(p + 2 + sep, 2),
                          sep = 1 /\ At(p + 2) # 45)
        date(location, sep) ==
            DateAt(Digits(1, 4), sep, 5 + sep, 5 + sep + 2 < location)
        \* parse_hh_mm_ss_ff over positions from..(end - 1): rv is 0 when
        \* the text ends there, 1 when something follows, -1 when it fails
        Sized(us, to_parse, stops, vals) ==
            IF us < 0 THEN [rv |-> -1, vals |-> vals]
            ELSE [rv |-> IF At(Least(stops)) # 0 THEN 1 ELSE 0,
                  vals |-> [vals EXCEPT ![4] =
                      us * (CASE to_parse = 1 -> 100000 [] to_parse = 2 -> 10000
                              [] to_parse = 3 -> 1000 [] to_parse = 4 -> 100
                              [] to_parse = 5 -> 10 [] OTHER -> 1)]]
        \* the digits beyond the sixth are skipped
        FractionOf(p, to_parse, vals) ==
            Sized(Digits(p, to_parse), to_parse,
                  {i \in (p + to_parse)..(len + 1) : ~IsDigit(At(i))}, vals)
        Fraction(p, end, vals) ==
            FractionOf(p, IF end - p >= 6 THEN 6 ELSE end - p, vals)
        RECURSIVE Component(_, _, _, _, _)
        Step(i, p, end, d, c, hs, vals, vs) ==
            IF i > 3 THEN Fraction(p, end, vals)
            ELSE IF d < 0 THEN [rv |-> -1, vals |-> vals]
            ELSE IF p + 3 >= end
            THEN [rv |-> IF c # 0 THEN 1 ELSE 0, vals |-> vs]
            ELSE IF hs /\ c = 58 THEN Component(i + 1, p + 3, end, hs, vs)
            ELSE IF c \in {46, 44} THEN Fraction(p + 3, end, vs)
            ELSE IF ~hs THEN Component(i + 1, p + 2, end, hs, vs)
            ELSE [rv |-> -1, vals |-> vals]
        Read(i, p, end, d, c, has_separator, vals) ==
            Step(i, p, end, d, c, IF i = 1 THEN c = 58 ELSE has_separator,
                 vals, IF i > 3 THEN vals ELSE [vals EXCEPT ![i] = d])
        Component(i, p, end, has_separator, vals) ==
            Read(i, p, end, Digits(p, 2), At(p + 2), has_separator, vals)
        hh_mm_ss_ff(from, end) == Component(1, from, end, TRUE, <<0, 0, 0, 0>>)
        \* repr() of the offset as a timedelta (days, seconds, microseconds)
        RECURSIVE Join(_)
        Join(ps) == IF Len(ps) = 1 THEN ps[1] ELSE ps[1] \o T(", ") \o Join(Tail(ps))
        Delta(days, rest, us) ==
            T("datetime.timedelta(")
            \o Join((IF days # 0 THEN <<T("days=") \o IntText(days)>> ELSE <<>>)
                    \o (IF rest # 0 THEN <<T("seconds=") \o IntText(rest)>> ELSE <<>>)
                    \o (IF us # 0 THEN <<T("microseconds=") \o IntText(us)>>
                        ELSE <<>>))
            \o T(")")
        DeltaOf(secs, us) == Delta(secs \div 86400, secs % 86400, us)
        offset_repr(negative, off_seconds, off_us) ==
            DeltaOf(IF ~negative THEN off_seconds
                    ELSE IF off_us = 0 THEN 0 - off_seconds
                    ELSE 0 - off_seconds - 1,
                    IF negative /\ off_us # 0 THEN 1000000 - off_us ELSE off_us)
        offset_text(has_tz, negative, off_seconds, off_us) ==
            IF ~has_tz THEN <<>>
            ELSE (IF negative /\ (off_seconds # 0 \/ off_us # 0) THEN <<45>> ELSE <<43>>)
                 \o Pad(off_seconds \div 3600, 2) \o <<58>>
                 \o Pad((off_seconds % 3600) \div 60, 2)
                 \o (IF off_seconds % 60 # 0 \/ off_us # 0
                     THEN <<58>> \o Pad(off_seconds % 60, 2) ELSE <<>>)
                 \o (IF off_us # 0 THEN <<46>> \o Pad(off_us, 6) ELSE <<>>)
        \* the datetime constructor over the parsed components
        Built(d, t, has_tz, negative, off_seconds, off_us) ==
            IF off_seconds >= 86400
            THEN Exc(T("offset must be a timedelta strictly between ")
                     \o T("-timedelta(hours=24) and timedelta(hours=24), not ")
                     \o offset_repr(negative, off_seconds, off_us) \o T("."))
            ELSE IF d.year < 1 \/ d.year > 9999
            THEN Exc(T("year ") \o IntText(d.year) \o T(" is out of range"))
            ELSE IF d.month < 1 \/ d.month > 12
            THEN Exc(T("month must be in 1..12"))
            ELSE IF d.day < 1 \/ d.day > days_in_month(d.year, d.month)
            THEN Exc(T("day is out of range for month"))
            ELSE IF t[1] > 23 THEN Exc(T("hour must be in 0..23"))
            ELSE IF t[2] > 59 THEN Exc(T("minute must be in 0..59"))
            ELSE IF t[3] > 59 THEN Exc(T("second must be in 0..59"))
            ELSE Val([t |-> "datetime",
                      s |-> Pad(d.year, 4) \o <<45>> \o Pad(d.month, 2) \o <<45>>
                            \o Pad(d.day, 2) \o <<84>> \o Pad(t[1], 2) \o <<58>>
                            \o Pad(t[2], 2) \o <<58>> \o Pad(t[3], 2)
                            \o (IF t[4] # 0 THEN <<46>> \o Pad(t[4], 6) ELSE <<>>)
                            \o offset_text(has_tz, negative, off_seconds,
                                           off_us)])
        \* an offset of zero seconds is UTC, whatever its fraction
        Seconds(d, t, has_tz, negative, off_seconds, fraction) ==
            Built(d, t, has_tz, negative, off_seconds,
                  IF off_seconds = 0 THEN 0 ELSE fraction)
        Offset(d, t, has_tz, negative, o) ==
            Seconds(d, t, has_tz, negative, o[1] * 3600 + o[2] * 60 + o[3], o[4])
        Checked(d, has_time, has_tz, mark, time, tz, time_ok) ==
            IF ~d.ok \/ ~time_ok THEN invalid
            ELSE Offset(d, IF has_time THEN time.vals ELSE <<0, 0, 0, 0>>,
                        has_tz, mark = 45,
                        IF has_tz /\ mark # 90 THEN tz.vals ELSE <<0, 0, 0, 0>>)
        \* parse_isoformat_time over the bytes after the separator
        Parsed(d, has_time, tzinfo_pos, mark, time, tz) ==
            Checked(d, has_time, has_time /\ tzinfo_pos <= len, mark, time, tz,
                    \/ ~has_time
                    \/ /\ time.rv >= 0
                       /\ tzinfo_pos = len + 1 => time.rv = 0
                       /\ mark = 90 => At(tzinfo_pos + 1) = 0
                       /\ mark \in {43, 45} => tz.rv = 0)
        Timed(location, from, sep, tzinfo_pos) ==
            Parsed(date(location, sep), len > location, tzinfo_pos,
                   At(tzinfo_pos), hh_mm_ss_ff(from, tzinfo_pos),
                   hh_mm_ss_ff(tzinfo_pos + 1, len + 1))
        Marked(location, from, sep, marks) ==
            Timed(location, from, sep,
                  IF marks = {} THEN (IF from > len THEN from + 1 ELSE len + 1)
                  ELSE Least(marks))
        \* the time begins after the separator, a character of one to four
        \* bytes, which its first byte tells
        Separated(location, sep, lead) ==
            LET Begun(from) ==
                    Marked(location, from, sep,
                           {i \in from..(IF from > len THEN from ELSE len) :
                               At(i) \in {90, 43, 45}})
            IN Begun(location + 1
                     + (IF lead < 128 THEN 1
                        ELSE IF lead >= 240 THEN 4
                        ELSE IF lead >= 224 THEN 3
                        ELSE 2))
        Located(location, sep) == Separated(location, sep, At(location + 1))
    IN IF date_string.t \notin {"str", "enum"}
       THEN Exc(T("fromisoformat: argument must be str"))
       ELSE IF Len(chars) < 7 \/ \E i \in 1..Len(clean) : IsSurrogate(clean[i])
       THEN invalid
       ELSE Located(separator_location, IF At(5) = 45 THEN 1 ELSE 0)

\* bars is bars.data flattened in iteration order: each bar with its symbol
get_stock_bars(a, sdk, bars) ==
    LET \* lines 1084-1096: one BarData from one bar of one symbol
        bar_entity(bar) ==
            LET \* c holds the conversions in the order the code makes them
                Entity(c) ==
                    IF FirstExc(c).st = "exc" THEN FirstExc(c)
                    ELSE [st |-> "ok", msg |-> <<>>,
                          val |-> [t |-> "BarData", symbol |-> bar.symbol,
                                   timestamp |-> bar.timestamp,
                                   open |-> c[1].val,
                                   high |-> c[2].val,
                                   low |-> c[3].val,
                                   close |-> c[4].val,
                                   volume |-> c[5].val,
                                   trade_count |-> c[6].val,
                                   vwap |-> c[7].val]]
            IN Entity(<<PyFloat(bar.open), PyFloat(bar.high), PyFloat(bar.low),
                        PyFloat(bar.close), PyInt(bar.volume),
                        IF Truthy(bar.trade_count) THEN PyInt(bar.trade_count) ELSE Val(None),
                        PyFloatOrNone(bar.vwap)>>)
        \* lines 1052-1063: timeframe_map.get(timeframe, TimeFrame.Day): a text
        \* (or an enum member, which hashes as its value) that is a key of
        \* the table, else TimeFrame.Day
        timeframe_map(names) == IF names = {} THEN "1Day" ELSE CHOOSE n \in names : TRUE
        Listed(m, cs) ==
            IF m.st = "exc" THEN Caught("", m.msg, cs)
            ELSE Success(List(m.val), cs)
        Called(r, cs) ==
            IF r.st = "exc" THEN Caught("", r.msg, cs)
            ELSE Listed(Collect([i \in DOMAIN bars |-> bar_entity(bars[i])]), cs)
        Requested(r, syms, start, end) ==
            Called(r, <<Call("get_stock_bars",
                             [symbol_or_symbols |-> syms.val,
                              timeframe |->
                                  timeframe_map(
                                      {n \in {"1Min", "5Min", "15Min", "30Min",
                                               "1Hour", "1Day", "1Week", "1Month"} :
                                          a.timeframe.t \in {"str", "enum"}
                                          /\ a.timeframe.s = T(n)}),
                              start |-> start.val,
                              end |-> end.val,
                              limit |-> a.limit], r)>>)
        Tried(pre, syms, start, end) ==
            IF pre.st = "exc" THEN Caught("", pre.msg, <<>>)
            ELSE Requested(ClientCall(sdk, bars), syms, start, end)
        Parsed(syms, start, end) ==
            Tried(FirstExc(<<syms, start, end, Ctor(sdk)>>), syms, start, end)
    \* lines 1066-1067: datetime.fromisoformat(start) if start else None
    IN Parsed(symbol_list(a.symbols),
              IF Truthy(a.start) THEN fromisoformat(a.start) ELSE Val(None),
              IF Truthy(a.end) THEN fromisoformat(a.end) ELSE Val(None))

get_portfolio_history(a, sdk, history) ==
    LET \* lines 1123-1143: one row per timestamp
        portfolio_rows ==
            LET \* float(xs[i]) if i < len(xs) else None   (i is 1-based here)
                ItemOrNone(xs, i) == IF i <= Len(xs) THEN PyFloat(xs[i]) ELSE Val(None)
                \* c holds the conversions in the order the code makes them
                Entity(i, c) ==
                    IF FirstExc(c).st = "exc" THEN FirstExc(c)
                    ELSE [st |-> "ok", msg |-> <<>>,
                          val |-> [timestamp |-> history.timestamp[i],
                                   equity |-> c[1].val,
                                   profit_loss |-> c[2].val,
                                   profit_loss_pct |-> c[3].val]]
                Row(i) == Entity(i, <<ItemOrNone(history.equity, i),
                                      ItemOrNone(history.profit_loss, i),
                                      ItemOrNone(history.profit_loss_pct, i)>>)
            IN Collect([i \in 1..Len(history.timestamp) |-> Row(i)])
        r == ClientCall(sdk, history)
        cs == <<Call("get_portfolio_history",
                     [period |-> a.period, timeframe |-> a.timeframe,
                      extended_hours |-> a.extended_hours], r)>>
        Listed(m) ==
            IF m.st = "exc" THEN Caught("", m.msg, cs)
            ELSE Success(List(m.val), cs)
    IN IF Ctor(sdk).st = "exc" THEN Caught("", Ctor(sdk).msg, <<>>)
       ELSE IF r.st = "exc" THEN Caught("", r.msg, cs)
       ELSE Listed(portfolio_rows)

----------------------------------------------------------------------------
(* Option contracts and option positions *)

\* getattr(contract, name, None) / contract.get(name)
GetOrNone(v) == IF v.t = "missing" THEN None ELSE v

\* a contract is an object with a symbol attribute ("obj"), a dict ("dict"),
\* or something else (another object "other", a list, a value): None for the
\* latter
parse_option_contract(c) ==
    \* getattr(contract, name, '') / contract.get(name, '')
    LET GetOrEmpty(v) == IF v.t = "missing" THEN Str("") ELSE v
        \* str(x) if x else None
        StrIfTruthy(v) == IF Truthy(v) THEN PyStr(v) ELSE None
    IN
    IF "kind" \in DOMAIN c /\ (c.kind = "obj" \/ c.kind = "dict")
    THEN [t |-> "OptionContract",
          symbol |-> PyStr(GetOrEmpty(c.symbol)),
          underlying_symbol |-> PyStr(GetOrEmpty(c.underlying_symbol)),
          name |-> StrIfTruthy(c.name),
          status |-> StrIfTruthy(c.status),
          tradable |-> GetOrNone(c.tradable),
          expiration_date |-> StrIfTruthy(c.expiration_date),
          root_symbol |-> StrIfTruthy(c.root_symbol),
          underlying_asset_id |-> StrIfTruthy(c.underlying_asset_id),
          type |-> GetOrNone(c.type),
          style |-> GetOrNone(c.style),
          strike_price |-> StrIfTruthy(c.strike_price),
          multiplier |-> StrIfTruthy(c.multiplier),
          size |-> StrIfTruthy(c.size),
          open_interest |-> GetOrNone(c.open_interest),
          open_interest_date |-> StrIfTruthy(c.open_interest_date),
          close_price |-> StrIfTruthy(c.close_price),
          close_price_date |-> StrIfTruthy(c.close_price_date)]
    ELSE None

\* the cap on the limit filter
LimitCap == 1000

\* a dispatch that looks at the tuple form before the named attribute: C26
\* must tell it apart from the dispatch of the code
contracts_of_tuple_first(response) ==
    CASE response.shape = "attr" -> response.contracts
      [] response.shape = "named_tuple" -> response.contracts
      [] response.shape = "tuple" -> response.contracts
      [] response.shape = "empty_tuple" -> <<>>
      [] response.shape = "list" -> response.contracts
      [] OTHER -> <<>>

\* lines 1216-1228: the flat contract list by response shape.  "attr" is an
\* object with an option_contracts attribute (held in contracts),
\* "named_tuple" a tuple with first element contracts that also has the
\* attribute option_contracts, "tuple" a tuple with first element contracts,
\* "list" the list contracts itself
contracts_of(response) ==
    CASE response.shape = "attr" -> response.contracts
      [] response.shape = "named_tuple" -> response.option_contracts
      [] response.shape = "tuple" -> response.contracts
      [] response.shape = "empty_tuple" -> <<>>
      [] response.shape = "list" -> response.contracts
      [] OTHER -> <<>>

\* lines 1230-1234: the parsed contracts, unrecognised elements skipped
RECURSIVE parse_all(_)
parse_all(cs) ==
    LET Kept(p, rest) == IF IsNone(p) THEN rest ELSE <<p>> \o rest
    IN IF cs = <<>> THEN <<>>
       ELSE Kept(parse_option_contract(Head(cs)), parse_all(Tail(cs)))

get_option_contracts(a, sdk, response) ==
    LET Called(r, cs) ==
            IF r.st = "exc" THEN Caught("", r.msg, cs)
            ELSE Success(List(parse_all(contracts_of(response))), cs)
        Requested(r, params) ==
            Called(r, <<Call("get_option_contracts", params.val, r)>>)
        Tried(pre, params) ==
            IF pre.st = "exc" THEN Caught("", pre.msg, <<>>)
            ELSE Requested(ClientCall(sdk, response), params)
        Built(params) == Tried(FirstExc(<<params, Ctor(sdk)>>), params)
        \* lines 1178-1211: the keyword set of GetOptionContractsRequest
        \* `if x: request_params[key] = x`: the key is absent unless x is truthy
        IfSupplied(v) == IF Truthy(v) THEN v ELSE Missing
        \* contract_type_map.get(contract_type.lower())
        contract_type_map(k) ==
            CASE k = T("call") -> Enum("call") [] k = T("put") -> Enum("put")
              [] OTHER -> None
        \* style_map.get(style.lower())
        style_map(k) ==
            CASE k = T("american") -> Enum("american")
              [] k = T("european") -> Enum("european")
              [] OTHER -> None
        Params(syms, ct, st) ==
            IF FirstExc(<<syms, ct, st>>).st = "exc"
            THEN FirstExc(<<syms, ct, st>>)
            ELSE [st |-> "ok", msg |-> <<>>,
                  val |-> [limit |-> IF a.limit < LimitCap THEN a.limit
                                     ELSE LimitCap,
                           underlying_symbols |->
                               IF Truthy(a.underlying_symbols)
                                  /\ syms.val.items # <<>>
                               THEN syms.val ELSE Missing,
                           expiration_date |-> IfSupplied(a.expiration_date),
                           expiration_date_gte |->
                               IfSupplied(a.expiration_date_gte),
                           expiration_date_lte |->
                               IfSupplied(a.expiration_date_lte),
                           root_symbol |-> IfSupplied(a.root_symbol),
                           type |-> IF Truthy(a.contract_type)
                                    THEN contract_type_map(ct.val.s) ELSE Missing,
                           style |-> IF Truthy(a.style)
                                     THEN style_map(st.val.s) ELSE Missing,
                           strike_price_gte |-> IfSupplied(a.strike_price_gte),
                           strike_price_lte |-> IfSupplied(a.strike_price_lte)]]
    IN Built(Params(IF Truthy(a.underlying_symbols)
                    THEN symbol_list(a.underlying_symbols) ELSE Val(None),
                    IF Truthy(a.contract_type) THEN PyLower(a.contract_type)
                    ELSE Val(None),
                    IF Truthy(a.style) THEN PyLower(a.style) ELSE Val(None)))

get_option_contract(a, sdk, response) ==
    LET r == ClientCall(sdk, response)
        cs == <<Call("get_option_contract", [symbol |-> a.symbol], r)>>
        \* x[0] if x else None
        first(x) == IF x # <<>> THEN x[1] ELSE None
        \* lines 1250-1258: the single contract by response shape.  An "attr"
        \* response is an object whose option_contracts is the list contracts, a
        \* "named_tuple" a tuple that has the attribute too, a "tuple" the tuple
        \* of the elements of contracts, a "list" the list contracts, and a
        \* "direct" response is the contract itself (None when contracts is
        \* empty)
        contract_of ==
            CASE response.shape = "attr" -> first(response.contracts)
              [] response.shape = "named_tuple" -> first(response.option_contracts)
              [] response.shape = "tuple" -> first(response.contracts)
              [] response.shape = "empty_tuple" -> None
              [] response.shape = "list" -> List(response.contracts)
              [] OTHER -> first(response.contracts)
        \* not contract: a dict without keys, an empty list and a falsy value
        \* are not a contract, every other object is
        absent(c) ==
            CASE "kind" \in DOMAIN c ->
                   c.kind = "dict" /\ \A f \in DOMAIN c \ {"kind"} : c[f] = Missing
              [] c.t = "list" -> c.items = <<>>
              [] OTHER -> ~Truthy(c)
        Parsed(p) ==
            IF IsNone(p) THEN NotFound(T("Unknown contract data structure"), cs)
            ELSE Success(List(<<p>>), cs)
        Found(contract) ==
            IF absent(contract)
            THEN NotFound(T("No contract found for ") \o TextOf(a.symbol), cs)
            ELSE Parsed(parse_option_contract(contract))
    IN IF r.st = "exc" THEN Caught("", r.msg, cs)
       ELSE Found(contract_of)

\* the shortest symbol the OCC decoding is applied to
OccMinLen == 15
\* the type character is this many characters from the end
OccTypeOffset == 9

\* a filter that knows the exact text "us_option" only: C22 must tell it apart
\* from the filter of the code
is_option_exact(asset_class) == asset_class.t = "str" /\ asset_class.s = T("us_option")

\* lines 1280-1284
is_option(asset_class) ==
    \/ (asset_class.t \in {"str", "enum"} /\ asset_class.s = T("us_option"))
    \/ (Truthy(asset_class) /\ Contains(LowerText(TextOf(asset_class)), T("option")))

\* a decoding applied to symbols of any length: C27 must tell it apart from
\* the decoding of the code
contract_type_of_any_length(symbol) ==
    LET k == Len(symbol) - OccTypeOffset + 1
        type_char == IF k >= 1 THEN SubSeq(symbol, k, k) ELSE <<>>
    IN IF type_char = T("C") THEN Enum("call")
       ELSE IF type_char = T("P") THEN Enum("put")
       ELSE None

\* lines 1288-1294: symbol[-9:-8] of a symbol of at least 15 characters
contract_type_of(symbol) ==
    IF Len(symbol) >= OccMinLen
    THEN LET k == Len(symbol) - OccTypeOffset + 1
             type_char == SubSeq(symbol, k, k)
         IN IF type_char = T("C") THEN Enum("call")
            ELSE IF type_char = T("P") THEN Enum("put")
            ELSE None
    ELSE None

\* lines 1296-1308: one OptionPosition from one SDK position
option_position_entity(pos) ==
    LET \* c holds the steps that may raise, in the order the code makes them
        Entity(c) ==
            IF FirstExc(c).st = "exc" THEN FirstExc(c)
            ELSE [st |-> "ok", msg |-> <<>>,
                  val |-> [t |-> "OptionPosition", symbol |-> pos.symbol,
                           quantity |-> c[2].val,
                           side |-> PyValueOrSelf(pos.side),
                           market_value |-> c[3].val,
                           cost_basis |-> c[4].val,
                           unrealized_pl |-> c[5].val,
                           unrealized_plpc |-> c[6].val,
                           current_price |-> c[7].val,
                           contract_type |-> c[1].val,
                           strike_price |-> None,
                           expiration_date |-> None]]
        \* line 1289: len(symbol) is defined for a text only
        Decoded(symbol) ==
            IF symbol.t \in {"str", "enum"} THEN Val(contract_type_of(symbol.s))
            ELSE Exc(T("object of type '") \o TypeName(symbol)
                     \o T("' has no len()"))
    IN Entity(<<Decoded(pos.symbol), PyFloat(pos.qty), PyFloat(pos.market_value),
                PyFloat(pos.cost_basis), PyFloat(pos.unrealized_pl),
                PyFloat(pos.unrealized_plpc),
                PyFloatOrNone(pos.current_price)>>)

get_option_positions(sdk, positions) ==
    LET r == ClientCall(sdk, positions)
        cs == <<Call("get_all_positions", None, r)>>
        IsOpt(pos) == is_option(GetOrNone(pos.asset_class))
        Listed(m) ==
            IF m.st = "exc" THEN Caught("", m.msg, cs)
            ELSE Success(List(m.val), cs)
        Filtered(opts) ==
            Listed(Collect([i \in DOMAIN opts |->
                               option_position_entity(opts[i])]))
    IN IF r.st = "exc" THEN Caught("", r.msg, cs)
       ELSE Filtered(SelectSeq(positions, IsOpt))

\* a lookup that takes the first position whatever its symbol: C21 must tell
\* it apart from the lookup of the code
find_position_first(positions, symbol) ==
    IF positions = <<>> THEN None ELSE Head(positions)

\* lines 1514-1517: the first position whose symbol equals the argument
\* (pos.symbol == symbol)
RECURSIVE find_position(_, _)
find_position(positions, symbol) ==
    IF positions = <<>> THEN None
    ELSE IF PyEq(Head(positions).symbol, symbol) THEN Head(positions)
    ELSE find_position(Tail(positions), symbol)

\* lines 1510-1522: the body up to its second SDK call.  It has returned out
\* (done), or goes on with the quantity to exercise and the calls made so far
exercise_lookup(a, sdk, positions) ==
    LET r == ClientCall(sdk, positions)
        c1 == Call("get_all_positions", None, r)
        Ended(out) == [done |-> TRUE, out |-> out]
        Sized(exercise_qty) ==
            IF exercise_qty.st = "exc"
            THEN Ended(Caught("", exercise_qty.msg, <<c1>>))
            ELSE [done |-> FALSE, calls |-> <<c1>>,
                  exercise_qty |-> exercise_qty.val]
        \* not option_position: None is falsy, a position object is truthy
        Found(option_position) ==
            IF "t" \in DOMAIN option_position /\ ~Truthy(option_position)
            THEN Ended(NotFound(T("No position found for ") \o TextOf(a.symbol),
                                <<c1>>))
            ELSE Sized(IF ~IsNone(a.qty) THEN Val(a.qty)
                       ELSE PyFloat(option_position.qty))
    IN IF r.st = "exc" THEN Ended(Caught("", r.msg, <<c1>>))
       ELSE Found(find_position(positions, a.symbol))

\* lines 1525-1540: the second SDK call and the envelope, after the calls cs
exercise_submit(a, sdk2, cs, exercise_qty) ==
    LET r2 == ClientCall(sdk2, None)
        all == cs \o <<Call("exercise_options_position",
                            [symbol |-> a.symbol, qty |-> exercise_qty], r2)>>
    IN IF r2.st = "exc" THEN Caught("", r2.msg, all)
       ELSE Success([t |-> "dict", symbol |-> a.symbol,
                     exercised_qty |-> exercise_qty,
                     message |-> Text(T("Successfully exercised ")
                                      \o TextOf(exercise_qty)
                                      \o T(" contracts of ")
                                      \o TextOf(a.symbol))], all)

\* sdk scripts get_all_positions, sdk2 exercise_options_position
exercise_option_position(a, sdk, sdk2, positions) ==
    LET Continued(l) ==
            IF l.done THEN l.out
            ELSE exercise_submit(a, sdk2, l.calls, l.exercise_qty)
    IN Continued(exercise_lookup(a, sdk, positions))

----------------------------------------------------------------------------
(* Input domains: arguments, and the objects the brokerage returns *)

SeqsUpTo(S, n) == UNION {[1..k -> S] : k \in 0..n}

Symbols == {Str("AAPL")}
\* an optional numeric argument: a number or None
OptNumDom == {Num(n) : n \in -1..MaxNum} \cup {None}
\* a required numeric argument: a number, or null or text passed in its place
ReqNumDom == OptNumDom \cup {Str("ten")}
SideDom == {Str("BUY"), Str("sell"), Str("byu"), Str(""), None}
TifDom == {Str("DAY"), Str("xyz")}
CallSym == "AAPL240119C00175000"

Leg(symbol, ratio_qty, side, intent) ==
    [symbol |-> symbol, ratio_qty |-> ratio_qty, side |-> side,
     position_intent |-> intent]

\* lists returned by the brokerage have at most MaxItems elements
MaxItems == 2

\* an optional numeric field of a brokerage object: absent, zero (number or
\* text) or a value
OptFieldDom == {None, Num(0), Str("0"), Str("5")}

\* the stock position of the test fixture mock_position
mock_position ==
    [symbol |-> Str("AAPL"), qty |-> Str("100"), side |-> Enum("long"),
     market_value |-> Str("17500.00"), cost_basis |-> Str("15000.00"),
     unrealized_pl |-> Str("2500.00"), unrealized_plpc |-> Str("0.1667"),
     current_price |-> Str("175.00"), qty_available |-> Str("100"),
     asset_class |-> Str("us_equity")]

\* the option position of the test fixture mock_option_position
mock_option_position ==
    [symbol |-> Str("AAPL240119C00175000"), qty |-> Str("10"),
     side |-> Enum("long"), market_value |-> Str("5000.00"),
     cost_basis |-> Str("4000.00"), unrealized_pl |-> Str("1000.00"),
     unrealized_plpc |-> Str("0.25"), current_price |-> Str("5.00"),
     qty_available |-> Str("10"), asset_class |-> Str("us_option")]

\* the position base with the given fields set on it, as the tests do
PositionObj(base, symbol, side, qty_available, current_price, asset_class) ==
    [base EXCEPT !.symbol = symbol, !.side = side,
                 !.qty_available = qty_available,
                 !.current_price = current_price,
                 !.asset_class = asset_class]

StoredOrder(shape, filled, price) ==
    [id |-> Str("904837e3-3b76-47ec-b432-046db621571b"), symbol |-> Str("AAPL"),
     qty |-> Str("10"), side |-> Wrap(shape, "buy"),
     order_type |-> Wrap(shape, "market"), status |-> Wrap(shape, "filled"),
     submitted_at |-> [t |-> "datetime", s |-> T("2024-01-19T14:30:00+00:00")],
     filled_at |-> IF IsNone(filled) THEN None
                   ELSE [t |-> "datetime", s |-> T("2024-01-19T14:30:00+00:00")],
     filled_qty |-> filled, filled_avg_price |-> filled,
     limit_price |-> price, stop_price |-> price]

QuoteObj(symbol, bid_price, ask_price, bid_size, ask_size) ==
    [symbol |-> Str(symbol), bid_price |-> bid_price, ask_price |-> ask_price,
     bid_size |-> bid_size, ask_size |-> ask_size,
     timestamp |-> [t |-> "datetime", s |-> T("2024-01-19T14:30:00+00:00")]]

BarObj(symbol, trade_count, vwap) ==
    [symbol |-> Str(symbol),
     timestamp |-> [t |-> "datetime", s |-> T("2024-01-19T14:30:00+00:00")],
     open |-> Flt(173), high |-> Flt(176),
     low |-> [t |-> "float", s |-> T("172.5")], close |-> Flt(175),
     volume |-> Num(1000000), trade_count |-> trade_count, vwap |-> vwap]

\* the contract of the test fixture mock_option_contract, an object with
\* attributes (the fixture draws underlying_asset_id when it runs)
mock_option_contract ==
    [kind |-> "obj", symbol |-> Str("AAPL240119C00175000"),
     underlying_symbol |-> Str("AAPL"),
     name |-> Str("AAPL Jan 19 2024 175 Call"), status |-> Str("active"),
     tradable |-> Bool(TRUE), expiration_date |-> Str("2024-01-19"),
     root_symbol |-> Str("AAPL"),
     underlying_asset_id |-> Str("b0b6dd9d-8b9b-48a9-ba46-b9d54906e415"),
     type |-> Str("call"), style |-> Str("american"),
     strike_price |-> Str("175.00"), multiplier |-> Str("100"),
     size |-> Str("100"), open_interest |-> Num(1500),
     open_interest_date |-> Str("2024-01-15"), close_price |-> Str("5.25"),
     close_price_date |-> Str("2024-01-15")]

\* the fixture's contract as an object, a dict or another value (kind), with
\* the given symbol, its optional texts set to opt and its pass-through
\* fields tradable and open_interest set to raw
ContractObj(kind, symbol, opt, raw) ==
    [mock_option_contract EXCEPT
        !.kind = kind, !.symbol = symbol, !.name = opt, !.root_symbol = opt,
        !.strike_price = opt, !.open_interest_date = opt, !.close_price = opt,
        !.close_price_date = opt, !.tradable = raw, !.open_interest = raw]

ContractDom ==
    {ContractObj(k, Str(CallSym), o, r) :
        k \in {"obj", "dict"}, o \in {Missing, None, Str("175.00")},
        r \in {Missing, Num(0)}}
    \cup {mock_option_contract,
          ContractObj("dict", Missing, Str("175.00"), Num(1500)),
          ContractObj("other", Missing, Missing, Missing)}

----------------------------------------------------------------------------
(* Actions: the framework dispatches one tool call and gets its outcome    *)

\* the names under which _register_tools registers the tools
ToolNames ==
    {"get_account_info", "get_positions", "get_orders", "get_order",
     "place_market_order", "place_limit_order", "place_stop_order",
     "place_stop_limit_order", "place_trailing_stop_order",
     "place_bracket_order", "place_oco_order", "cancel_order",
     "close_position", "close_all_positions", "get_latest_quotes",
     "get_stock_bars", "get_portfolio_history", "get_option_contracts",
     "get_option_contract", "get_option_positions", "place_option_order",
     "place_multi_leg_option_order", "exercise_option_position"}

\* a check that takes only an unset variable for missing: C19 must tell it
\* apart from the check of the code
credentials_missing_unset_only(k, s) == IsNone(k) \/ IsNone(s)

\* a reading that takes every set, non-empty value other than "false" for
\* paper mode: C29 must tell it apart from the reading of the code
paper_mode_unless_false(v) ==
    IsNone(v) \/ (v.s # <<>> /\ LowerText(v.s) # T("false"))

\* line 150: os.getenv("ALPACA_PAPER", "true").lower() == "true"
paper_mode(v) == LowerText(IF IsNone(v) THEN T("true") ELSE v.s) = T("true")

\* line 152: not self.api_key or not self.secret_key
credentials_missing(k, s) == ~Truthy(k) \/ ~Truthy(s)

\* main() calls AlpacaMCPServer(): __init__ reads the two credentials from
\* the environment (unset, empty or a key) and raises ValueError when one is
\* missing; main() does not catch it and the process ends with status 1
Construct ==
    /\ pc = "main"
    /\ \E k \in {None, Str(""), Str("PK-KEY")},
          s \in {None, Str(""), Str("SECRET")} :
        /\ api_key' = k
        /\ secret_key' = s
        /\ paper' = paper_mode(alpaca_paper)
        /\ IF credentials_missing(k, s)
           THEN pc' = "exited" /\ exit_code' = Num(1)
           ELSE pc' = "clients" /\ exit_code' = exit_code
    /\ UNCHANGED <<tool, args, calls, result, inflight, trading_client, data_client,
                   app_tools, self_attrs, startup, alpaca_paper>>

\* lines 155-159: the trading client, then the market-data client
CreateClients ==
    /\ pc = "clients"
    /\ trading_client' = [cls |-> "TradingClient", api_key |-> api_key,
                          secret_key |-> secret_key, paper |-> paper]
    /\ data_client' = [cls |-> "StockHistoricalDataClient",
                       api_key |-> api_key, secret_key |-> secret_key]
    /\ startup' = startup \o <<"TradingClient", "StockHistoricalDataClient">>
    /\ pc' = "app"
    /\ UNCHANGED <<tool, args, calls, result, inflight, api_key, secret_key, app_tools,
                   self_attrs, exit_code, alpaca_paper, paper>>

\* lines 165-173: the FastMCP application is created and every tool is
\* registered with it
RegisterTools ==
    /\ pc = "app"
    /\ app_tools' = ToolNames
    /\ startup' = Append(startup, "register_tools")
    /\ pc' = "run"
    /\ UNCHANGED <<tool, args, calls, result, inflight, api_key, secret_key,
                   trading_client, data_client, self_attrs, exit_code,
                   alpaca_paper, paper>>

\* line 1554: server.app.run(transport=transport); tool calls are served
\* from here on
Run ==
    /\ pc = "run"
    /\ startup' = Append(startup, "run")
    /\ pc' = "idle"
    /\ UNCHANGED <<tool, args, calls, result, inflight, api_key, secret_key,
                   trading_client, data_client, app_tools, self_attrs, exit_code,
                   alpaca_paper, paper>>

\* the framework looks the tool up by name, calls it and gets its outcome
Finish(name, a, out) ==
    /\ name \in app_tools
    /\ pc' = "returned"
    /\ tool' = name
    /\ args' = a
    /\ calls' = out.calls
    /\ result' = out.res
    /\ UNCHANGED <<server, inflight>>

GetAccountInfo ==
    /\ pc = "idle"
    /\ \E sdk \in SdkBehaviours,
          account \in
              {[id |-> Str("acct-1"), cash |-> c,
                buying_power |-> Str("200000.00"),
                portfolio_value |-> Str("150000.00"),
                equity |-> Str("150000.00"),
                long_market_value |-> l, short_market_value |-> sh,
                initial_margin |-> l, maintenance_margin |-> sh,
                last_equity |-> Str("148000.00"), daytrade_count |-> d] :
                c \in {Str("100000.00"), None}, l \in OptFieldDom,
                sh \in OptFieldDom,
                d \in {None, Num(0), Num(2)}} :
        Finish("get_account_info", [account |-> account],
               get_account_info(sdk, account))

GetPositions ==
    /\ pc = "idle"
    /\ \E sdk \in SdkBehaviours,
          positions \in SeqsUpTo(
              {PositionObj(mock_position, Str("AAPL"), sd, qa, Str("175.00"),
                           Str("us_equity")) :
                  sd \in {Enum("long"), Str("long")}, qa \in OptFieldDom},
              MaxItems) :
        Finish("get_positions", [positions |-> positions],
               get_positions(sdk, positions))

GetOrders ==
    /\ pc = "idle"
    /\ \E sdk \in SdkBehaviours, symbols \in {None, Str("AAPL,msft"), Num(7)},
          orders \in SeqsUpTo({StoredOrder(sh, f, pr) :
                                   sh \in {"echo", "plain"}, f \in OptFieldDom,
                                   pr \in {None, Str("5")}}, MaxItems) :
        LET a == [status |-> None, limit |-> Num(100), symbols |-> symbols,
                  orders |-> orders]
        IN Finish("get_orders", a, get_orders(a, sdk, orders))

GetOrder ==
    /\ pc = "idle"
    /\ \E sdk \in SdkBehaviours, sh \in {"echo", "plain"}, f \in OptFieldDom,
          pr \in {None, Str("5"), Str("0.00001")} :
        LET order == StoredOrder(sh, f, pr)
            a == [order_id |-> Str("904837e3"), order |-> order]
        IN Finish("get_order", a, get_order(a, sdk, order))

PlaceMarketOrder ==
    /\ pc = "idle"
    /\ \E symbol \in Symbols, side \in SideDom,
          \* a quantity may be a fraction that Python writes as 1e-05
          qty \in ReqNumDom \cup {[t |-> "float", s |-> T("1e-05")]},
          time_in_force \in TifDom \cup {Str("gtc"), Str("Ioc"), Str("fok"),
                                        Str("cls"), Str("OPG"), Str("")},
          sdk \in SdkBehaviours :
        LET a == [symbol |-> symbol, qty |-> qty, side |-> side,
                  time_in_force |-> time_in_force,
                  sdk |-> sdk]
        IN Finish("place_market_order", a, place_market_order(a, sdk))

PlaceLimitOrder ==
    /\ pc = "idle"
    /\ \E symbol \in Symbols, qty \in ReqNumDom, side \in SideDom,
          limit_price \in ReqNumDom, time_in_force \in TifDom,
          sdk \in SdkBehaviours :
        LET a == [symbol |-> symbol, qty |-> qty, side |-> side,
                  limit_price |-> limit_price, time_in_force |-> time_in_force,
                  sdk |-> sdk]
        IN Finish("place_limit_order", a, place_limit_order(a, sdk))

PlaceStopOrder ==
    /\ pc = "idle"
    /\ \E symbol \in Symbols, qty \in ReqNumDom, side \in SideDom,
          stop_price \in ReqNumDom, time_in_force \in TifDom,
          sdk \in SdkBehaviours :
        LET a == [symbol |-> symbol, qty |-> qty, side |-> side,
                  stop_price |-> stop_price, time_in_force |-> time_in_force,
                  sdk |-> sdk]
        IN Finish("place_stop_order", a, place_stop_order(a, sdk))

PlaceStopLimitOrder ==
    /\ pc = "idle"
    /\ \E symbol \in Symbols, qty \in OptNumDom, side \in SideDom,
          stop_price \in OptNumDom \cup {Num(MaxNum + 1)},
          limit_price \in OptNumDom \cup {Num(MaxNum + 1)},
          time_in_force \in TifDom, sdk \in SdkBehaviours :
        LET a == [symbol |-> symbol, qty |-> qty, side |-> side,
                  stop_price |-> stop_price, limit_price |-> limit_price,
                  time_in_force |-> time_in_force,
                  sdk |-> sdk]
        IN Finish("place_stop_limit_order", a, place_stop_limit_order(a, sdk))

TrailingStopArgs ==
    {[symbol |-> symbol, qty |-> qty, side |-> side,
      trail_percent |-> trail_percent, trail_price |-> trail_price,
      time_in_force |-> time_in_force] :
        symbol \in Symbols, qty \in ReqNumDom, side \in SideDom,
        trail_percent \in OptNumDom, trail_price \in OptNumDom,
        time_in_force \in TifDom}

PlaceTrailingStopOrder ==
    /\ pc = "idle"
    /\ \E a \in TrailingStopArgs, sdk \in SdkBehaviours :
        Finish("place_trailing_stop_order", a @@ [sdk |-> sdk],
               place_trailing_stop_order(a, sdk))

PlaceBracketOrder ==
    /\ pc = "idle"
    /\ \E symbol \in Symbols, qty \in OptNumDom, side \in {Str("Buy"), Str("SELL"), Str("")},
          take_profit_limit_price \in ReqNumDom \cup {Num(MaxNum + 1)},
          stop_loss_stop_price \in OptNumDom \ {None},
          stop_loss_limit_price \in OptNumDom \cup {Num(MaxNum + 1)},
          entry_type \in {Str("market"), Str("Market"), Str("LIMIT"),
                          Str("stop"), None},
          entry_limit_price \in OptNumDom, time_in_force \in TifDom,
          sdk \in SdkBehaviours :
        \* every combination of quantity, prices and entry type with one side
        \* and time in force (every SDK behaviour with the optional prices
        \* left out or the entry price given, an echoed order with the
        \* others); every side and time in force with one set of prices; the
        \* fixture order as the fixture builds it (the payload reads no price
        \* of the returned order)
        /\ sdk.shape = "fixture" => sdk.order = mock_order
        /\ \/ /\ side = Str("Buy") /\ time_in_force = Str("DAY")
              /\ \/ /\ IsNone(stop_loss_limit_price)
                    /\ entry_limit_price \in {None, Num(1)}
                 \/ /\ sdk.ctor = "ok" /\ sdk.call = "return"
                    /\ sdk.shape = "echo"
           \/ /\ qty = Num(1)
              /\ take_profit_limit_price = Num(1)
              /\ stop_loss_stop_price = Num(1)
              /\ IsNone(stop_loss_limit_price)
              /\ IsNone(entry_limit_price)
        /\ LET a == [symbol |-> symbol, qty |-> qty, side |-> side,
                     take_profit_limit_price |-> take_profit_limit_price,
                     stop_loss_stop_price |-> stop_loss_stop_price,
                     stop_loss_limit_price |-> stop_loss_limit_price,
                     entry_type |-> entry_type,
                     entry_limit_price |-> entry_limit_price,
                     time_in_force |-> time_in_force,
                     sdk |-> sdk]
           IN Finish("place_bracket_order", a, place_bracket_order(a, sdk))

PlaceOcoOrder ==
    /\ pc = "idle"
    /\ \E symbol \in Symbols, qty \in OptNumDom, side \in {Str("Buy"), Str("SELL"), Str("")},
          take_profit_limit_price \in ReqNumDom \cup {Num(MaxNum + 1)},
          stop_loss_stop_price \in OptNumDom \ {None},
          stop_loss_limit_price \in OptNumDom \cup {Num(MaxNum + 1)},
          time_in_force \in TifDom,
          sdk \in SdkBehaviours :
        \* the fixture order as the fixture builds it (the payload reads no
        \* price of the returned order)
        /\ sdk.shape = "fixture" => sdk.order = mock_order
        /\ LET a == [symbol |-> symbol, qty |-> qty, side |-> side,
                     take_profit_limit_price |-> take_profit_limit_price,
                     stop_loss_stop_price |-> stop_loss_stop_price,
                     stop_loss_limit_price |-> stop_loss_limit_price,
                     time_in_force |-> time_in_force,
                     sdk |-> sdk]
           IN Finish("place_oco_order", a, place_oco_order(a, sdk))

CancelOrder ==
    /\ pc = "idle"
    /\ \E sdk \in SdkBehaviours :
        LET a == [order_id |-> Str("904837e3")]
        IN Finish("cancel_order", a, cancel_order(a, sdk))

ClosePosition ==
    /\ pc = "idle"
    /\ \E symbol \in Symbols, qty \in OptNumDom \cup {Str("ten")},
          percentage \in OptNumDom \cup {Num(PctMax), Num(PctMax + 1)},
          sdk \in SdkBehaviours :
        LET a == [symbol |-> symbol, qty |-> qty, percentage |-> percentage,
                  sdk |-> sdk]
        IN Finish("close_position", a, close_position(a, sdk))

CloseAllPositions ==
    LET \* what one position's closing may come back as: the response wrapper
        \* around the order, the wrapper around the details of a failure
        \* (which have a symbol and no id), the order itself, an object that
        \* has neither attribute, and a text
        Order == [cls |-> "Order", symbol |-> Str("AAPL"), id |-> Str("order-1")]
        Response(body, id) ==
            [cls |-> "ClosePositionResponse", body |-> body,
             symbol |-> Str("AAPL"), id |-> id, str |-> "symbol='AAPL'"]
        CloseResults ==
            {Response(Order, Missing),
             Response([cls |-> "FailedClosePositionDetails", symbol |-> Str("AAPL"),
                       id |-> Missing], Missing),
             Response(None, Missing),
             Order @@ [body |-> Missing, str |-> "id='order-1'"],
             [cls |-> "object", body |-> Missing, symbol |-> Missing, id |-> Missing,
              str |-> "<object>"],
             Str("rejected")}
    IN
    /\ pc = "idle"
    /\ \E cancel_orders \in BOOLEAN, sdk \in SdkBehaviours,
          results \in {None} \cup {List(rs) : rs \in SeqsUpTo(CloseResults, MaxItems)} :
        LET a == [cancel_orders |-> cancel_orders, results |-> results]
        IN Finish("close_all_positions", a, close_all_positions(a, sdk, results))

GetLatestQuotes ==
    /\ pc = "idle"
    /\ \E symbols \in {Str("aapl, msft"), Str("AAPL"), Str(" spy ,"),
                         Str("aapl,MSFT , Goog"), Text(<<9>> \o T("aapl") \o <<13, 10>>), Str(""),
                         None},
          sdk \in SdkBehaviours,
          quotes \in SeqsUpTo(
              {QuoteObj(sym, pr, pr, sz, sz) :
                  sym \in {"AAPL"}, pr \in {None, Num(0), Num(5)},
                  sz \in {None, Num(0), Num(5)}},
              MaxItems) :
        LET a == [symbols |-> symbols, quotes |-> quotes]
        IN Finish("get_latest_quotes", a, get_latest_quotes(a, sdk, quotes))

GetStockBars ==
    /\ pc = "idle"
    /\ \E symbols \in {Str("aapl, msft"), Str("AAPL"), Str(" spy ,"), None},
          timeframe \in {Str("1Hour"), Str("2Day")},
          range \in {<<None, None>>, <<Str("2024-01-01"), None>>,
                     <<Str("yesterday"), None>>,
                     <<Str("2024-01-01"), Str("2024-01-15")>>},
          sdk \in SdkBehaviours,
          bars \in SeqsUpTo(
              {BarObj("AAPL", tc, vw) :
                  tc \in {None, Num(0), Num(5)}, vw \in {None, Num(5)}}
              \cup {BarObj("MSFT", Num(5000),
                            [t |-> "float", s |-> T("174.5")])},
              MaxItems) :
        \* every date range with one timeframe, every timeframe with the
        \* default range
        /\ timeframe = Str("1Hour") \/ range = <<None, None>>
        /\ LET a == [symbols |-> symbols, timeframe |-> timeframe,
                     start |-> range[1], end |-> range[2], limit |-> Num(100),
                     bars |-> bars]
           IN Finish("get_stock_bars", a, get_stock_bars(a, sdk, bars))

GetPortfolioHistory ==
    /\ pc = "idle"
    /\ \E sdk \in SdkBehaviours,
          history \in
              {[timestamp |-> [i \in 1..k |-> Num(1705000000 + i)],
                equity |-> [i \in 1..e |-> Num(150 + i)],
                profit_loss |-> [i \in 1..k |-> Num(i)],
                profit_loss_pct |-> [i \in 1..e |-> Num(0)]] :
                k \in 0..MaxItems, e \in 0..MaxItems} :
        LET a == [period |-> Str("1M"), timeframe |-> Str("1D"),
                  extended_hours |-> FALSE, history |-> history]
        IN Finish("get_portfolio_history", a,
                  get_portfolio_history(a, sdk, history))

\* every combination of filters, against one response
GetOptionContracts ==
    /\ pc = "idle"
    /\ \* every filter, against an empty response
       \/ \E underlying_symbols \in {None, Str(""), Str("aapl, spy")},
                expiration_date \in {None, Str(""), Str("2024-01-19")},
                root_symbol \in {None, Str("AAPL")},
                contract_type \in {None, Str(""), Str("CALL"), Str("straddle"), Num(3)},
                style \in {None, Str("American"), Str("exotic")},
                strike_price_gte \in {None, Str("100")},
                limit \in {100, LimitCap + 1}, sdk \in SdkBehaviours :
              LET a == [underlying_symbols |-> underlying_symbols,
                        expiration_date |-> expiration_date,
                        expiration_date_gte |-> root_symbol,
                        expiration_date_lte |-> None,
                        root_symbol |-> root_symbol,
                        contract_type |-> contract_type, style |-> style,
                        strike_price_gte |-> strike_price_gte,
                        strike_price_lte |-> strike_price_gte, limit |-> limit,
                        response |-> [shape |-> "list", contracts |-> <<>>]]
              IN Finish("get_option_contracts", a,
                        get_option_contracts(a, sdk, a.response))
       \* every response shape, against one set of filters
       \/ \E sdk \in SdkBehaviours,
                response \in
                    {[shape |-> sh, contracts |-> cs] :
                        sh \in {"attr", "tuple", "list", "other"},
                        cs \in SeqsUpTo(ContractDom, 1)}
                    \cup {[shape |-> "empty_tuple", contracts |-> <<>>]}
                    \cup {[shape |-> "named_tuple",
                           contracts |-> <<ContractObj("dict", Str("AAPL240119P00180000"), None, Missing)>>,
                           option_contracts |-> cs] :
                        cs \in {<<>>, <<ContractObj("obj", Str(CallSym), None, Missing)>>}}
                    \cup {[shape |-> "attr", contracts |-> cs] :
                        cs \in [1..MaxItems ->
                                  {ContractObj("obj", Str(CallSym), None, Missing),
                                   ContractObj("dict", Str("AAPL240119P00180000"), None, Missing),
                                   ContractObj("other", Missing, Missing, Missing)}]} :
              LET a == [underlying_symbols |-> Str("AAPL"),
                        expiration_date |-> None, expiration_date_gte |-> None,
                        expiration_date_lte |-> None, root_symbol |-> None,
                        contract_type |-> Str("call"), style |-> None,
                        strike_price_gte |-> None, strike_price_lte |-> None,
                        limit |-> 100, response |-> response]
              IN Finish("get_option_contracts", a,
                        get_option_contracts(a, sdk, response))

GetOptionContract ==
    /\ pc = "idle"
    /\ \E sdk \in SdkBehaviours,
          response \in
              {[shape |-> sh, contracts |-> cs] :
                  sh \in {"attr", "direct"}, cs \in SeqsUpTo(ContractDom, 1)}
              \cup {[shape |-> "tuple", contracts |-> <<c>>] : c \in ContractDom}
              \cup {[shape |-> "empty_tuple", contracts |-> <<>>]}
              \cup {[shape |-> "list", contracts |-> cs] :
                      cs \in {<<>>, <<mock_option_contract>>}}
              \cup {[shape |-> "named_tuple", contracts |-> <<mock_option_contract>>,
                     option_contracts |-> cs] :
                      cs \in {<<>>, <<ContractObj("dict", Str(CallSym), None, Missing)>>}}
              \* a dict without keys, and values, where a contract is expected
              \cup {[shape |-> sh, contracts |-> <<c>>] :
                      sh \in {"attr", "direct"},
                      c \in {[f \in DOMAIN mock_option_contract |->
                                 IF f = "kind" THEN "dict" ELSE Missing],
                             Str(""), Num(0), Str(CallSym)}} :
        LET a == [symbol |-> Str(CallSym), response |-> response]
        IN Finish("get_option_contract", a,
                  get_option_contract(a, sdk, response))

GetOptionPositions ==
    \/ /\ pc = "idle"
       /\ \E sdk \in SdkBehaviours,
          positions \in SeqsUpTo(
              \* the option fixture under every symbol, and under every asset
              \* class; the stock fixture; a short position with a plain side
              {PositionObj(mock_option_position, Str(sym), Enum("long"), Str("10"),
                           Str("5.00"), Str("us_option")) :
                  sym \in {"AAPL", CallSym, "AAPL240119P00180000", "AAPL240119X00175000",
                           "SPYC00175000", "AAPL24P00175000",
                           "AAPL2C00175000"}}
              \cup {PositionObj(mock_option_position, Str(CallSym), Enum("long"),
                                Str("10"), Str("5.00"), ac) :
                        ac \in {Str("us_equity"), Str("US_OPTION"),
                                Enum("us_option"), Str("crypto"), None,
                                Missing}}
              \cup {PositionObj(mock_position, Str("AAPL"), Enum("long"), Str("100"),
                                Str("175.00"), Str("us_equity"))}
              \cup {PositionObj(mock_option_position, Str(CallSym), Str("short"),
                                Str("10"), cp,
                                Str("us_option")) : cp \in OptFieldDom},
              MaxItems) :
        Finish("get_option_positions", [positions |-> positions],
               get_option_positions(sdk, positions))
    \* positions that cannot be converted: a symbol that is not a text (on an
    \* option and on a stock position) and a null market_value, next to the
    \* two fixtures and an "US_OPTION" call
    \/ /\ pc = "idle"
       /\ \E positions \in SeqsUpTo(
              {mock_option_position, mock_position,
               [mock_option_position EXCEPT !.asset_class = Str("US_OPTION")],
               [mock_option_position EXCEPT !.symbol = None],
               [mock_option_position EXCEPT !.symbol = Num(5)],
               [mock_option_position EXCEPT !.market_value = None],
               [mock_position EXCEPT !.symbol = None]}, MaxItems) :
            /\ Len(positions) > 0
            /\ Finish("get_option_positions", [positions |-> positions],
                      get_option_positions(
                          [ctor |-> "ok", call |-> "return", msg |-> <<>>,
                           shape |-> "echo", order |-> None], positions))

PlaceOptionOrder ==
    /\ pc = "idle"
    /\ \E qty \in ReqNumDom, side \in SideDom,
          position_intent \in {Str("buy_to_open"), Str("Buy_To_Close"),
                               Str("sell_to_open"), Str("SELL_TO_CLOSE"),
                               Str("invalid_intent"), Str("buy_to_open "),
                               Str(""), None},
          order_type \in {Str("market"), Str("LIMIT"), Str("stop")},
          limit_price \in OptNumDom,
          time_in_force \in TifDom, sdk \in SdkBehaviours :
        \* every combination with one time in force; the other time in
        \* force with one side and intent
        /\ \/ time_in_force = Str("DAY")
           \/ side = Str("BUY") /\ position_intent = Str("buy_to_open")
        /\ LET a == [symbol |-> Str(CallSym), qty |-> qty, side |-> side,
                     position_intent |-> position_intent,
                     order_type |-> order_type, limit_price |-> limit_price,
                     time_in_force |-> time_in_force, sdk |-> sdk]
           IN Finish("place_option_order", a, place_option_order(a, sdk))

PlaceMultiLegOptionOrder ==
    LET \* legs: well-formed ones with a valid or an invalid intent, and malformed
        \* ones (a key absent, a null intent, a non-numeric ratio)
        LegDom ==
            {Leg(Str(CallSym), Num(1), sd, pi) :
                sd \in {Str("buy"), Str("Sell")},
                pi \in {Str("Buy_To_Open"), Str("invalid")}}
            \cup {Leg(Str("AAPL240119P00180000"), Num(-2), sd, pi) :
                sd \in {Str("buy"), Str("Sell")},
                pi \in {Str("sell_to_close"), Str("bogus")}}
            \cup {Leg(Str(CallSym), Num(1), Missing, Str("invalid")),
                  Leg(Str(CallSym), Num(1), Str("buy"), Missing),
                  Leg(Str(CallSym), Num(1), Str("buy"), None),
                  Leg(Str(CallSym), Str("x"), Str("sell"), Str("sell_to_open"))}
    IN
    /\ pc = "idle"
    /\ \E legs \in SeqsUpTo(LegDom, MaxLegs),
          order_type \in {Str("market"), Str("LIMIT"), Str("stop")},
          limit_price \in OptNumDom,
          time_in_force \in {Str("day"), Str("xyz"), None},
          sdk \in SdkBehaviours :
        \* every combination of order type, limit price and time in force with
        \* at most one leg; two legs with one time in force; longer leg lists
        \* as market orders
        /\ \/ Len(legs) <= 1
           \/ /\ time_in_force = Str("day") /\ limit_price \in {None, Num(1)}
              /\ Len(legs) <= 2 \/ (order_type = Str("market") /\ IsNone(limit_price))
        /\ LET a == [legs |-> legs, order_type |-> order_type,
                     limit_price |-> limit_price, time_in_force |-> time_in_force,
                     sdk |-> sdk]
           IN Finish("place_multi_leg_option_order", a,
                     place_multi_leg_option_order(a, sdk))

ExerciseOptionPosition ==
    /\ pc = "idle"
    /\ LET Held(S) ==
               SeqsUpTo({PositionObj(mock_option_position, sym, Enum("long"),
                                     Str("10"), Str("5.00"), Str("us_option")) :
                            sym \in S}, MaxItems)
           Exercised(symbol, qty, sdk, sdk2, positions) ==
               LET a == [symbol |-> symbol, qty |-> qty, positions |-> positions,
                         sdk2 |-> sdk2]
               IN Finish("exercise_option_position", a,
                         exercise_option_position(a, sdk, sdk2, positions))
           \* symbols that are numbers, under which == is not sameness of
           \* the objects: 5 == 5.0, nan != nan
           Numbers == {Num(5), Flt(5), [t |-> "float", s |-> T("nan")]}
           Returning == [ctor |-> "ok", call |-> "return", msg |-> <<>>,
                         shape |-> "echo", order |-> None]
       IN \* text symbols, under every behaviour of the two SDK calls
          \/ \E symbol \in {Str(CallSym), Str("AAPL")}, qty \in OptNumDom,
                sdk \in SdkBehaviours, sdk2 \in SdkBehaviours,
                positions \in Held({Str(CallSym), Str("AAPL240119P00180000")}) :
                 Exercised(symbol, qty, sdk, sdk2, positions)
          \* every symbol, with both SDK calls returning
          \/ \E symbol \in Numbers \cup {Str(CallSym)}, qty \in {None, Num(1)},
                positions \in Held(Numbers \cup {Str(CallSym)}) :
                 Exercised(symbol, qty, Returning, Returning, positions)

\* the framework sends the outcome to the client; the envelope is discarded
Deliver ==
    /\ pc = "returned"
    /\ pc' = "idle"
    /\ tool' = "none"
    /\ args' = None
    /\ calls' = <<>>
    /\ result' = NoResult
    /\ UNCHANGED <<server, inflight>>

\* the process has started main(): nothing is constructed yet
Init ==
    /\ pc = "main"
    /\ tool = "none"
    /\ args = None
    /\ calls = <<>>
    /\ result = NoResult
    /\ api_key = None
    /\ secret_key = None
    /\ trading_client = None
    /\ data_client = None
    /\ app_tools = {}
    /\ self_attrs = {}
    /\ startup = <<>>
    /\ exit_code = None
    /\ inflight = [i \in 1..MaxInflight |-> [pc |-> "free"]]
    /\ alpaca_paper = None
    /\ paper = None

Next ==
    \/ Construct
    \/ CreateClients
    \/ RegisterTools
    \/ Run
    \/ GetAccountInfo
    \/ GetPositions
    \/ GetOrders
    \/ GetOrder
    \/ PlaceMarketOrder
    \/ PlaceLimitOrder
    \/ PlaceStopOrder
    \/ PlaceStopLimitOrder
    \/ PlaceTrailingStopOrder
    \/ PlaceBracketOrder
    \/ PlaceOcoOrder
    \/ CancelOrder
    \/ ClosePosition
    \/ CloseAllPositions
    \/ GetLatestQuotes
    \/ GetStockBars
    \/ GetPortfolioHistory
    \/ GetOptionContracts
    \/ GetOptionContract
    \/ GetOptionPositions
    \/ PlaceOptionOrder
    \/ PlaceMultiLegOptionOrder
    \/ ExerciseOptionPosition
    \/ Deliver

Spec == Init /\ [][Next]_vars

----------------------------------------------------------------------------
(* Concurrent dispatch.  The tools are coroutines without an await: once    *)
(* the event loop starts a tool body it runs to its return, so concurrency  *)
(* is the framework holding several accepted calls and running and          *)
(* answering them in any order.                                             *)

\* the tool registered under name t, called with arguments a while the SDK
\* behaves as sdk and the brokerage holds one account, position, order,
\* quote, bar and contract
ToolOutcome(t, a, sdk) ==
    LET position == PositionObj(mock_option_position, Str(CallSym), Enum("long"),
                                Str("10"), Str("5.00"),
                                Str("us_option"))
        order == StoredOrder("echo", Str("5"), Str("5"))
        closing == [cls |-> "Order", body |-> Missing, symbol |-> Str(CallSym),
                    id |-> Str("order-1"), str |-> "id='order-1'"]
        account == [id |-> Str("acct-1"), cash |-> Str("100000.00"),
                    buying_power |-> Str("200000.00"),
                    portfolio_value |-> Str("150000.00"),
                    equity |-> Str("150000.00"),
                    long_market_value |-> Str("50000.00"),
                    short_market_value |-> Str("0.00"),
                    initial_margin |-> Str("25000.00"),
                    maintenance_margin |-> Str("15000.00"),
                    last_equity |-> Str("148000.00"),
                    daytrade_count |-> Num(2)]
        history == [timestamp |-> <<Num(1705000001)>>, equity |-> <<Num(151)>>,
                    profit_loss |-> <<Num(1)>>, profit_loss_pct |-> <<Num(0)>>]
        response == [shape |-> "attr",
                     contracts |-> <<ContractObj("obj", Str(CallSym), None,
                                                 Missing)>>]
    IN CASE t = "get_account_info" -> get_account_info(sdk, account)
         [] t = "get_positions" -> get_positions(sdk, <<position>>)
         [] t = "get_orders" -> get_orders(a, sdk, <<order>>)
         [] t = "get_order" -> get_order(a, sdk, order)
         [] t = "place_market_order" -> place_market_order(a, sdk)
         [] t = "place_limit_order" -> place_limit_order(a, sdk)
         [] t = "place_stop_order" -> place_stop_order(a, sdk)
         [] t = "place_stop_limit_order" -> place_stop_limit_order(a, sdk)
         [] t = "place_trailing_stop_order" -> place_trailing_stop_order(a, sdk)
         [] t = "place_bracket_order" -> place_bracket_order(a, sdk)
         [] t = "place_oco_order" -> place_oco_order(a, sdk)
         [] t = "cancel_order" -> cancel_order(a, sdk)
         [] t = "close_position" -> close_position(a, sdk)
         [] t = "close_all_positions"
              -> close_all_positions(a, sdk, List(<<closing>>))
         [] t = "get_latest_quotes"
              -> get_latest_quotes(a, sdk, <<QuoteObj("AAPL", Num(5), Num(5), Num(5), Num(5))>>)
         [] t = "get_stock_bars"
              -> get_stock_bars(a, sdk, <<BarObj("AAPL", Num(5), Num(5))>>)
         [] t = "get_portfolio_history" -> get_portfolio_history(a, sdk, history)
         [] t = "get_option_contracts" -> get_option_contracts(a, sdk, response)
         [] t = "get_option_contract" -> get_option_contract(a, sdk, response)
         [] t = "get_option_positions" -> get_option_positions(sdk, <<position>>)
         [] t = "place_option_order" -> place_option_order(a, sdk)
         [] t = "place_multi_leg_option_order"
              -> place_multi_leg_option_order(a, sdk)
         [] t = "exercise_option_position"
              -> exercise_option_position(a, sdk, sdk, <<position>>)

\* a body of exercise_option_position that keeps exercise_qty on the server
\* object and takes it from there when it is set, where the code has a
\* local: C20 must tell it apart from the code
tool_step_qty_on_self(slot, self) ==
    LET kept == {e \in self.self_attrs : e[1] = "exercise_qty"}
        Ended(out, attrs) ==
            [slot |-> [pc |-> "done", inv |-> slot.inv, calls |-> out.calls,
                       result |-> out.res],
             self |-> [self EXCEPT !.self_attrs = attrs]]
        Exercised(l, exercise_qty) ==
            Ended(exercise_submit(slot.inv.args, slot.inv.sdk2, l.calls,
                                  exercise_qty),
                  {<<"exercise_qty", exercise_qty>>})
        Looked(l) ==
            IF l.done THEN Ended(l.out, self.self_attrs)
            ELSE Exercised(l, IF kept = {} THEN l.exercise_qty
                              ELSE (CHOOSE e \in kept : TRUE)[2])
        Picked(lookup, other) ==
            IF slot.inv.tool = "exercise_option_position" THEN Looked(lookup)
            ELSE Ended(other, self.self_attrs)
    IN Picked(exercise_lookup(slot.inv.args, slot.inv.sdk, slot.inv.positions),
              ToolOutcome(slot.inv.tool, slot.inv.args, slot.inv.sdk))

\* The body of the call in slot, run on the server object self.  No tool body
\* has an await, so the event loop runs it from entry to return in one step
\* (exercise_option_position with both of its SDK calls); no body assigns to
\* an attribute of self, which it leaves as it found it
tool_step(slot, self) ==
    LET Ended(out) ==
            [slot |-> [pc |-> "done", inv |-> slot.inv, calls |-> out.calls,
                       result |-> out.res],
             self |-> self]
        Picked(exercised, other) ==
            IF slot.inv.tool = "exercise_option_position" THEN exercised ELSE other
    IN Ended(Picked(exercise_option_position(slot.inv.args, slot.inv.sdk,
                                             slot.inv.sdk2, slot.inv.positions),
                    ToolOutcome(slot.inv.tool, slot.inv.args, slot.inv.sdk)))

\* the calls dispatched concurrently: every tool, each reading the arguments of
\* its own signature, and place_market_order also with a quantity of 0, which
\* it rejects.  exercise_option_position is called for a held and for
\* an unknown symbol, with and without a quantity, and with its second SDK
\* call returning or raising, while the brokerage holds 10 contracts
ConcCalls ==
    LET Returning == [ctor |-> "ok", call |-> "return", msg |-> <<>>,
                      shape |-> "echo", order |-> None]
        Raising == [ctor |-> "ok", call |-> "raise", msg |-> T("Exercise failed"),
                    shape |-> "echo", order |-> None]
        Called(t, symbol, q, sdk2) ==
             [tool |-> t, sdk |-> Returning, sdk2 |-> sdk2,
              positions |-> <<mock_option_position>>,
              args |-> [symbol |-> symbol, qty |-> q, side |-> Str("buy"),
                        time_in_force |-> Str("day"), limit_price |-> Num(1),
                        stop_price |-> Num(1), trail_percent |-> Num(1),
                        trail_price |-> None, take_profit_limit_price |-> Num(1),
                        stop_loss_stop_price |-> Num(1),
                        stop_loss_limit_price |-> None, entry_type |-> Str("market"),
                        entry_limit_price |-> None, percentage |-> None,
                        order_id |-> Str("904837e3"),
                        position_intent |-> Str("buy_to_open"),
                        order_type |-> Str("market"),
                        legs |-> <<Leg(Str(CallSym), q, Str("buy"), Str("buy_to_open"))>>,
                        symbols |-> Str("aapl"), status |-> None, limit |-> 100,
                        timeframe |-> Str("1Day"), start |-> None, end |-> None,
                        period |-> Str("1M"), extended_hours |-> FALSE,
                        cancel_orders |-> FALSE, underlying_symbols |-> Str("AAPL"),
                        expiration_date |-> None, expiration_date_gte |-> None,
                        expiration_date_lte |-> None, root_symbol |-> None,
                        contract_type |-> Str("call"), style |-> None,
                        strike_price_gte |-> None, strike_price_lte |-> None]]
    IN
    {Called(t, Str(CallSym), Num(1), Returning) :
        t \in ToolNames \ {"exercise_option_position"}}
    \cup {Called("place_market_order", Str(CallSym), Num(0), Returning)}
    \cup {Called("exercise_option_position", Str(CallSym), q, sdk2) :
             q \in {None, Num(1)}, sdk2 \in {Returning, Raising}}
    \cup {Called("exercise_option_position", Str("AAPL"), q, Returning) :
             q \in {None, Num(1)}}

\* the framework accepts a call of a registered tool while others are in
\* flight
Dispatch ==
    /\ pc = "idle"
    /\ \E i \in DOMAIN inflight, inv \in ConcCalls :
        /\ inflight[i].pc = "free"
        /\ inv.tool \in app_tools
        /\ inflight' = [inflight EXCEPT ![i] = [pc |-> "dispatched", inv |-> inv]]
    /\ UNCHANGED <<pc, tool, args, calls, result, server>>

\* the event loop runs the body of one accepted call, from entry to return;
\* the body works on the server object, which is what it leaves of it
Handle ==
    /\ \E i \in DOMAIN inflight :
        /\ inflight[i].pc = "dispatched"
        /\ LET Stepped(st) ==
                   /\ inflight' = [inflight EXCEPT ![i] = st.slot]
                   /\ api_key' = st.self.api_key
                   /\ secret_key' = st.self.secret_key
                   /\ trading_client' = st.self.trading_client
                   /\ data_client' = st.self.data_client
                   /\ app_tools' = st.self.app_tools
                   /\ self_attrs' = st.self.self_attrs
           IN Stepped(tool_step(inflight[i],
                                [api_key |-> api_key, secret_key |-> secret_key,
                                 trading_client |-> trading_client,
                                 data_client |-> data_client,
                                 app_tools |-> app_tools,
                                 self_attrs |-> self_attrs]))
    /\ UNCHANGED <<pc, tool, args, calls, result, startup, exit_code,
                   alpaca_paper, paper>>

\* the framework sends the outcome of a finished call to its client
Respond ==
    /\ \E i \in DOMAIN inflight :
        /\ inflight[i].pc = "done"
        /\ inflight' = [inflight EXCEPT ![i] = [pc |-> "free"]]
    /\ UNCHANGED <<pc, tool, args, calls, result, server>>

\* the server after startup
ConcInit ==
    /\ pc = "idle"
    /\ tool = "none"
    /\ args = None
    /\ calls = <<>>
    /\ result = NoResult
    /\ api_key = Str("PK-KEY")
    /\ secret_key = Str("SECRET")
    /\ alpaca_paper = None
    /\ paper = TRUE
    /\ trading_client = [cls |-> "TradingClient", api_key |-> api_key,
                         secret_key |-> secret_key, paper |-> paper]
    /\ data_client = [cls |-> "StockHistoricalDataClient",
                      api_key |-> api_key, secret_key |-> secret_key]
    /\ app_tools = ToolNames
    /\ self_attrs = {}
    /\ startup = <<"TradingClient", "StockHistoricalDataClient",
                   "register_tools", "run">>
    /\ exit_code = None
    /\ inflight = [i \in 1..MaxInflight |-> [pc |-> "free"]]

ConcNext ==
    \/ Dispatch
    \/ Handle
    \/ Respond

ConcSpec == ConcInit /\ [][ConcNext]_vars

----------------------------------------------------------------------------
(* Startup under every environment.  Spec starts the process with           *)
(* ALPACA_PAPER unset; here the variable is unset or holds a text (a         *)
(* spelling of "true", "false", another text, the empty text, a padded      *)
(* "true"), and only the startup steps are taken.                           *)

StartInit ==
    /\ pc = "main"
    /\ tool = "none"
    /\ args = None
    /\ calls = <<>>
    /\ result = NoResult
    /\ api_key = None
    /\ secret_key = None
    /\ trading_client = None
    /\ data_client = None
    /\ app_tools = {}
    /\ self_attrs = {}
    /\ startup = <<>>
    /\ exit_code = None
    /\ inflight = [i \in 1..MaxInflight |-> [pc |-> "free"]]
    /\ alpaca_paper \in {None, Str("true"), Str("TRUE"), Str("True"),
                        Str("false"), Str("1"), Str("yes"), Str(""),
                        Str("true ")}
    /\ paper = None

StartNext ==
    \/ Construct
    \/ CreateClients
    \/ RegisterTools
    \/ Run

StartSpec == StartInit /\ [][StartNext]_vars

----------------------------------------------------------------------------
(* Properties *)

Returned == pc = "returned"

\* the invocation ended with an envelope (not with an exception)
GotEnvelope == Returned /\ result.kind = "returned"

Failed == GotEnvelope /\ ~result.success

FailedWith(text) == Failed /\ Contains(result.error.s, text)

\* C1 (as stated in the specification): the envelope of every invocation is
\* well-formed: success=true comes with a payload and no error,
\* success=false comes with a non-empty error string and no payload.
C1_EnvelopeWellFormed ==
    GotEnvelope =>
        /\ result.success => ~IsNone(result.data) /\ IsNone(result.error)
        /\ ~result.success =>
              /\ result.error.t = "str"
              /\ result.error.s # <<>>
              /\ IsNone(result.data)

\* C2 (as stated in the specification): no invocation ends by raising to its
\* caller; every exception of the tool body becomes a success=false envelope.
C2_NoExceptionPropagates ==
    Returned => result.kind = "returned"

\* C3: when a client method of the SDK raised with message m during the
\* invocation, the tool returns success=false and its error contains m.
C3_SdkMessageKept ==
    Returned =>
        \A i \in DOMAIN calls :
            calls[i].raised =>
                /\ Failed
                /\ result.error.t = "str"
                /\ Contains(result.error.s, calls[i].msg)

\* C3 witness: get_order's lookup raised "Insufficient funds" and the error
\* carries it behind the tool's prefix.
C3_Witness ==
    /\ Returned
    /\ tool = "get_order"
    /\ Len(calls) = 1
    /\ calls[1].raised
    /\ calls[1].msg = T("Insufficient funds")
    /\ result.error = Str("Order not found or error: Insufficient funds")

\* an int or a float
IsNumber(v) == v.t \in {"int", "float"}

\* a supplied number that is not positive
NonPositiveArg(v) == IsNumber(v) /\ NumSign(v) <= 0

\* the quantity and price arguments of each order-placement tool that takes
\* them as plain arguments
QtyPriceArgs(t) ==
    CASE t = "place_market_order" -> {"qty"}
      [] t = "place_limit_order" -> {"qty", "limit_price"}
      [] t = "place_stop_order" -> {"qty", "stop_price"}
      [] t = "place_stop_limit_order" -> {"qty", "stop_price", "limit_price"}
      [] t = "place_trailing_stop_order" -> {"qty", "trail_percent", "trail_price"}
      [] t = "place_bracket_order" ->
            {"qty", "take_profit_limit_price", "stop_loss_stop_price",
             "stop_loss_limit_price", "entry_limit_price"}
      [] t = "place_oco_order" ->
            {"qty", "take_profit_limit_price", "stop_loss_stop_price",
             "stop_loss_limit_price"}
      [] t = "place_option_order" -> {"qty", "limit_price"}
      [] OTHER -> {}

\* the invocation was given a quantity or price <= 0
SomeNonPositive ==
    \/ \E f \in QtyPriceArgs(tool) : NonPositiveArg(args[f])
    \/ /\ tool = "place_multi_leg_option_order"
       /\ \/ NonPositiveArg(args.limit_price)
          \/ \E i \in DOMAIN args.legs : NonPositiveArg(args.legs[i].ratio_qty)

\* C4 (as stated in the specification): an order-placement tool given a
\* quantity or price <= 0 answers success=false with "greater than 0" and
\* invokes no SDK method.
C4_NonPositiveRejected ==
    (GotEnvelope /\ SomeNonPositive) =>
        /\ FailedWith(T("greater than 0"))
        /\ calls = <<>>

\* C5: an invocation that ends with a validation error has made no SDK call.
C5_ValidationBeforeSdk ==
    (GotEnvelope /\ result.site = "validation") =>
        /\ ~result.success
        /\ calls = <<>>

\* C5 witness: a two-leg order whose second leg has an unresolvable intent
\* is refused after the first leg was accepted, with no SDK call made.
C5_Witness ==
    /\ Returned
    /\ tool = "place_multi_leg_option_order"
    /\ result.site = "validation"
    /\ Len(args.legs) = 2
    /\ Contains(result.error.s, T("Invalid position_intent in leg 1"))
    /\ calls = <<>>

InTrailingStop == Returned /\ tool = "place_trailing_stop_order"

BothTrails(a) == ~IsNone(a.trail_percent) /\ ~IsNone(a.trail_price)
NeitherTrail(a) == IsNone(a.trail_percent) /\ IsNone(a.trail_price)

Positive(v) == IsNumber(v) /\ NumSign(v) > 0

\* x and y are the same number (1 and 1.0 are), or both null
SameValue(x, y) ==
    \/ IsNone(x) /\ IsNone(y)
    \/ /\ IsNumber(x) /\ IsNumber(y)
       /\ \/ PyFloat(x).val = PyFloat(y).val
          \/ NumSign(x) = 0 /\ NumSign(y) = 0

\* the SDK accepted the one submitted request and returned the order that
\* echoes it
SdkEchoed ==
    /\ Len(calls) = 1
    /\ calls[1].method = "submit_order"
    /\ ~calls[1].raised
    /\ calls[1].ret = OrderObj(calls[1].req, "echo")

\* C6: place_trailing_stop_order with neither or both trail arguments (qty a
\* number or null) returns success=false; with exactly one of them, positive,
\* a positive qty and the SDK returning the order that echoes the request, it
\* returns success=true, the payload field of the same name holds the value
\* and the other trail field is null.
C6_TrailingStopOutcome ==
    InTrailingStop =>
        /\ ((NeitherTrail(args) \/ BothTrails(args))
            /\ (IsNumber(args.qty) \/ IsNone(args.qty))) => Failed
        /\ (/\ Positive(args.qty)
            /\ \/ Positive(args.trail_percent) /\ IsNone(args.trail_price)
               \/ Positive(args.trail_price) /\ IsNone(args.trail_percent)
            /\ SdkEchoed) =>
               /\ GotEnvelope
               /\ result.success
               /\ calls[1].req.trail_percent = args.trail_percent
               /\ calls[1].req.trail_price = args.trail_price
               /\ SameValue(result.data.trail_percent, args.trail_percent)
               /\ SameValue(result.data.trail_price, args.trail_price)

\* C6 witness: a trailing stop by price alone succeeded and the payload
\* carries the price and a null percentage.
C6_Witness ==
    /\ InTrailingStop
    /\ result.success
    /\ args.trail_price = Num(1)
    /\ IsNone(args.trail_percent)
    /\ calls[1].ret = OrderObj(calls[1].req, "echo")
    /\ result.data.trail_price = Flt(1)
    /\ IsNone(result.data.trail_percent)

EitherMessage == Str("Either trail_percent or trail_price must be provided")
OnlyOneMessage ==
    Str("Only one of trail_percent or trail_price can be provided, not both")

\* qty is null or positive and every supplied trail value is positive
TrailValuesPass(a) ==
    /\ IsNone(a.qty) \/ Positive(a.qty)
    /\ IsNone(a.trail_percent) \/ Positive(a.trail_percent)
    /\ IsNone(a.trail_price) \/ Positive(a.trail_price)

\* some invocation with both trail arguments (among those passing the
\* positivity checks, when passing is set) fails with the error message e
BothPresentYields(e, passing) ==
    \E b \in TrailingStopArgs, sdk \in SdkBehaviours :
        /\ BothTrails(b)
        /\ passing => TrailValuesPass(b)
        /\ LET r == place_trailing_stop_order(b, sdk).res
           IN r.kind = "returned" /\ ~r.success /\ r.error = e

\* C7 (as stated in the specification): for all argument values, both trail
\* arguments supplied gives the "Only one of" message, neither gives the
\* "Either" message, and no both-present invocation fails with the message of
\* a both-missing one.
C7_TrailMessagesAlways ==
    (InTrailingStop /\ GotEnvelope) =>
        /\ BothTrails(args) => Failed /\ result.error = OnlyOneMessage
        /\ NeitherTrail(args) =>
              /\ Failed
              /\ result.error = EitherMessage
              /\ ~BothPresentYields(result.error, FALSE)

\* C7 (amended): the positivity checks come first.  When qty is null or
\* positive and every supplied trail value is positive, both trail arguments
\* give the "Only one of" message, neither gives the "Either" message, and no
\* such both-present invocation fails with the both-missing message; a
\* non-positive qty, then trail_price, then trail_percent is reported instead
\* with its own "must be greater than 0" message.
C7_TrailMessagesAfterPositivity ==
    (InTrailingStop /\ GotEnvelope) =>
        /\ TrailValuesPass(args) =>
              /\ BothTrails(args) => Failed /\ result.error = OnlyOneMessage
              /\ NeitherTrail(args) =>
                    /\ Failed
                    /\ result.error = EitherMessage
                    /\ ~BothPresentYields(result.error, TRUE)
        /\ NonPositiveArg(args.qty) =>
              Failed /\ result.error = Str("Quantity must be greater than 0")
        /\ ((IsNone(args.qty) \/ Positive(args.qty))
            /\ NonPositiveArg(args.trail_price)) =>
              Failed /\ result.error = Str("Trail price must be greater than 0")
        /\ ((IsNone(args.qty) \/ Positive(args.qty))
            /\ (IsNone(args.trail_price) \/ Positive(args.trail_price))
            /\ NonPositiveArg(args.trail_percent)) =>
              Failed /\ result.error = Str("Trail percent must be greater than 0")

\* C7 witness: both trail arguments positive with a positive qty were refused
\* with the "Only one of" message.
C7_Witness ==
    /\ InTrailingStop
    /\ Positive(args.qty)
    /\ Positive(args.trail_percent)
    /\ Positive(args.trail_price)
    /\ result.error = OnlyOneMessage

InClosePosition == Returned /\ tool = "close_position"

NumOrNone(v) == IsNumber(v) \/ v.t = "none"

\* C8: close_position with both qty and percentage answers "Only one of"; with
\* qty alone and <= 0, "greater than 0"; with percentage alone and outside
\* (0, 100], "between 0 and 100"; in every other case (values being numbers or
\* null) it calls the SDK's close_position exactly once, the close options
\* holding the text of the supplied qty or percentage and nothing else, or no
\* close options when neither was supplied.
C8_ClosePositionOptions ==
    InClosePosition =>
        /\ (~IsNone(args.qty) /\ ~IsNone(args.percentage)) =>
              FailedWith(T("Only one of")) /\ calls = <<>>
        /\ (NumOrNone(args.qty) /\ NumOrNone(args.percentage)
            /\ (IsNone(args.qty) \/ IsNone(args.percentage))) =>
              IF NonPositiveArg(args.qty)
              THEN FailedWith(T("greater than 0")) /\ calls = <<>>
              ELSE IF IsNumber(args.percentage)
                      /\ (NumSign(args.percentage) <= 0
                          \/ NumCompared(args.percentage, 100) = 1)
              THEN FailedWith(T("between 0 and 100")) /\ calls = <<>>
              ELSE /\ Len(calls) = 1
                   /\ calls[1].method = "close_position"
                   /\ calls[1].req.symbol = args.symbol
                   /\ calls[1].req.close_options =
                         IF ~IsNone(args.qty)
                         THEN [t |-> "dict", qty |-> PyStr(args.qty),
                               percentage |-> Missing]
                         ELSE IF ~IsNone(args.percentage)
                         THEN [t |-> "dict", qty |-> Missing,
                               percentage |-> PyStr(args.percentage)]
                         ELSE None

\* C8 witness: closing 100 percent of a position reached the SDK with the
\* percentage as the only close option.
C8_Witness ==
    /\ InClosePosition
    /\ IsNone(args.qty)
    /\ args.percentage = Num(100)
    /\ Len(calls) = 1
    /\ calls[1].req.close_options.percentage = Str("100")
    /\ calls[1].req.close_options.qty = Missing
    /\ result.success

InBracket == Returned /\ tool = "place_bracket_order"

LimitWithoutPrice(a) ==
    /\ a.entry_type.t = "str"
    /\ LowerText(a.entry_type.s) = T("limit")
    /\ IsNone(a.entry_limit_price)

TakeProfitMessage == T("Take profit limit price must be greater than 0")
StopLossLimitMessage == T("Stop loss limit price must be greater than 0")

\* qty, entry price and stop price pass validate_order_params
EntryValuesPass(a) ==
    /\ IsNone(a.qty) \/ Positive(a.qty)
    /\ IsNone(a.entry_limit_price) \/ Positive(a.entry_limit_price)
    /\ Positive(a.stop_loss_stop_price)

\* C9 (as stated in the specification), read with every other argument
\* valid: a limit entry without a price is answered with "entry_limit_price
\* is required" and no submit_order; a take-profit price <= 0 and a supplied
\* stop-loss limit price <= 0 each get their own message whatever the value of
\* the other.
C9_BracketAlways ==
    (InBracket /\ GotEnvelope /\ EntryValuesPass(args)) =>
        /\ (LimitWithoutPrice(args)
            /\ Positive(args.take_profit_limit_price)
            /\ (IsNone(args.stop_loss_limit_price)
                \/ Positive(args.stop_loss_limit_price))) =>
              FailedWith(T("entry_limit_price is required")) /\ calls = <<>>
        /\ NonPositiveArg(args.take_profit_limit_price) =>
              FailedWith(TakeProfitMessage)
        /\ NonPositiveArg(args.stop_loss_limit_price) =>
              FailedWith(StopLossLimitMessage)

\* C9 (amended): the checks run in a fixed order and the first failure is the
\* one reported.  A limit entry without a price never reaches submit_order,
\* and is answered with "entry_limit_price is required" when qty, the stop
\* price, the take-profit price and a supplied stop-loss limit price are all
\* positive.  With qty, entry price and stop price valid, a take-profit price
\* <= 0 gets the take-profit message whatever the stop-loss limit price is,
\* and a stop-loss limit price <= 0 gets its message only when the
\* take-profit price is positive.
C9_BracketInOrder ==
    InBracket =>
        /\ LimitWithoutPrice(args) => calls = <<>> /\ ~result.success
        /\ (LimitWithoutPrice(args) /\ EntryValuesPass(args)
            /\ Positive(args.take_profit_limit_price)
            /\ (IsNone(args.stop_loss_limit_price)
                \/ Positive(args.stop_loss_limit_price))) =>
              FailedWith(T("entry_limit_price is required"))
        /\ (EntryValuesPass(args)
            /\ NonPositiveArg(args.take_profit_limit_price)) =>
              /\ Failed
              /\ result.error = Text(TakeProfitMessage)
              /\ calls = <<>>
        /\ (EntryValuesPass(args) /\ Positive(args.take_profit_limit_price)
            /\ NonPositiveArg(args.stop_loss_limit_price)) =>
              /\ Failed
              /\ result.error = Text(StopLossLimitMessage)
              /\ calls = <<>>

\* C9 witness: a limit entry without a price, every other value positive, was
\* refused with the "required" message before any SDK call.
C9_Witness ==
    /\ InBracket
    /\ args.entry_type = Str("LIMIT")
    /\ IsNone(args.entry_limit_price)
    /\ Positive(args.qty)
    /\ Positive(args.take_profit_limit_price)
    /\ Positive(args.stop_loss_limit_price)
    /\ FailedWith(T("entry_limit_price is required"))
    /\ calls = <<>>

InMultiLeg == Returned /\ tool = "place_multi_leg_option_order"

\* the leg carries a position_intent text that is none of the four intents
Unresolved(leg) ==
    /\ leg.position_intent.t = "str"
    /\ IsNone(POSITION_INTENT_MAP(LowerText(leg.position_intent.s)))

LegMessage(i) == T("Invalid position_intent in leg ") \o IntText(i)

NoSubmit == \A k \in DOMAIN calls : calls[k].method # "submit_order"

\* the leg has a text side, a text intent, a symbol and a numeric ratio
LegWellTyped(leg) ==
    /\ leg.side.t = "str"
    /\ leg.position_intent.t = "str"
    /\ leg.symbol.t = "str"
    /\ IsNumber(leg.ratio_qty)

\* C10 (as stated in the specification), read with well-typed legs and
\* arguments and an SDK that builds every leg request: every leg with an
\* unresolvable intent, at (0-based) index i, makes the error name index i,
\* and submit_order is not called.
C10_EveryUnresolvedLegNamed ==
    (/\ InMultiLeg
     /\ args.time_in_force.t = "str"
     /\ \A j \in DOMAIN args.legs : LegWellTyped(args.legs[j])
     /\ result.site # "except") =>
        \A i \in DOMAIN args.legs :
            Unresolved(args.legs[i]) =>
                FailedWith(LegMessage(i - 1)) /\ NoSubmit

\* the loop passes the leg: a text side, a resolvable intent, a symbol and a
\* numeric ratio
LegPasses(leg) ==
    /\ leg.side.t = "str"
    /\ leg.position_intent.t = "str"
    /\ ~IsNone(POSITION_INTENT_MAP(LowerText(leg.position_intent.s)))
    /\ leg.symbol.t = "str"
    /\ IsNumber(leg.ratio_qty)

\* C10 (amended): the loop stops at the first leg it cannot accept.  A leg
\* list holding an unresolvable intent never reaches submit_order and the
\* answer is success=false; the error names the lowest index i whose leg has
\* an unresolvable intent, provided time_in_force is a text, that leg has a
\* text side and every leg before it passes (a leg request the SDK refuses to
\* build is reported with the SDK's message instead).
C10_FirstUnresolvedLegNamed ==
    InMultiLeg =>
        \A i \in DOMAIN args.legs :
            Unresolved(args.legs[i]) =>
                /\ Failed
                /\ NoSubmit
                /\ (/\ args.time_in_force.t = "str"
                    /\ args.legs[i].side.t = "str"
                    /\ \A j \in 1..(i - 1) : LegPasses(args.legs[j])) =>
                      \/ /\ result.site = "validation"
                         /\ Contains(result.error.s,
                                LegMessage(i - 1) \o T(": ")
                                \o args.legs[i].position_intent.s)
                         /\ \A k \in DOMAIN args.legs :
                               k # i => ~Contains(result.error.s, LegMessage(k - 1))
                      \/ i > 1 /\ result.site = "except"

\* C10 witness: two legs with unresolvable intents; the error names leg 0
\* only.
C10_Witness ==
    /\ InMultiLeg
    /\ Len(args.legs) = 2
    /\ Unresolved(args.legs[1])
    /\ Unresolved(args.legs[2])
    /\ FailedWith(LegMessage(0))
    /\ ~Contains(result.error.s, LegMessage(1))
    /\ calls = <<>>

InOptionOrder == Returned /\ tool = "place_option_order"

\* the four position intents of the specification
FourIntents ==
    {T("buy_to_open"), T("buy_to_close"), T("sell_to_open"), T("sell_to_close")}

\* side, time_in_force, position_intent and order_type are texts and qty is a
\* number, as the tool's signature declares them
OptionArgsTyped(a) ==
    /\ a.side.t = "str"
    /\ a.time_in_force.t = "str"
    /\ a.position_intent.t = "str"
    /\ a.order_type.t = "str"
    /\ IsNumber(a.qty)

SubmitCalls == {k \in DOMAIN calls : calls[k].method = "submit_order"}

\* C11: place_option_order resolves position_intent, ignoring case, against
\* exactly the four intents.  With arguments of the declared types: one of
\* the four with a market order type leads to exactly one submit_order call,
\* whose leg carries that intent, and to success=true when the SDK builds the
\* request and accepts the order; any other text is answered success=false
\* with "Invalid position_intent" and submit_order is not called.
C11_IntentResolved ==
    (InOptionOrder /\ OptionArgsTyped(args)) =>
        IF LowerText(args.position_intent.s) \in FourIntents
        THEN (/\ LowerText(args.order_type.s) = T("market")
              /\ args.sdk.ctor = "ok") =>
                 /\ Cardinality(SubmitCalls) = 1
                 /\ Len(calls) = 1
                 /\ calls[1].req.legs[1].position_intent
                        = [t |-> "enum", s |-> LowerText(args.position_intent.s)]
                 /\ ~calls[1].raised => GotEnvelope /\ result.success
        ELSE /\ FailedWith(T("Invalid position_intent"))
             /\ result.site = "validation"
             /\ calls = <<>>

\* C11 witness: an intent written in another case than the table's was
\* resolved, submitted once and answered success=true.
C11_Witness ==
    /\ InOptionOrder
    /\ OptionArgsTyped(args)
    /\ args.position_intent = Str("SELL_TO_CLOSE")
    /\ args.order_type = Str("market")
    /\ Len(calls) = 1
    /\ calls[1].method = "submit_order"
    /\ calls[1].req.legs[1].position_intent = Enum("sell_to_close")
    /\ GotEnvelope
    /\ result.success

\* the order-placement tools that take a side argument
SideTools ==
    {"place_market_order", "place_limit_order", "place_stop_order",
     "place_stop_limit_order", "place_trailing_stop_order",
     "place_bracket_order", "place_oco_order", "place_option_order"}

\* what the order-placement tool named t answers to arguments a (the scripted
\* SDK behaviour is carried in a.sdk)
OrderToolOutcome(t, a) == ToolOutcome(t, a, a.sdk)

\* the side the specification assigns to a side text
SideFor(s) == IF LowerText(s) = T("buy") THEN "BUY" ELSE "SELL"

\* the outcome o is accepted or refused exactly as the observed one: the same
\* kind of result, the same success flag and error, as many SDK calls
SameVerdict(o) ==
    /\ result.kind = o.res.kind
    /\ result.success = o.res.success
    /\ result.error = o.res.error
    /\ result.site = o.res.site
    /\ Len(calls) = Len(o.calls)

\* the legs with every side text replaced by "sell"
LegsSelling(legs) ==
    [i \in DOMAIN legs |->
        IF legs[i].side.t = "str" THEN [legs[i] EXCEPT !.side = Str("sell")]
        ELSE legs[i]]

\* C12: in every order-placement tool that takes a side text, the submitted
\* request's side is BUY exactly when the text equals "buy" ignoring case and
\* SELL for every other text, the empty one included (for a multi-leg order,
\* each leg request's side follows its leg's side text); and no side text is
\* rejected: the invocation is accepted or refused exactly as the same
\* invocation with side "sell" is.
C12_SideMapping ==
    /\ (Returned /\ tool \in SideTools /\ args.side.t = "str") =>
          /\ \A k \in SubmitCalls : calls[k].req.side = SideFor(args.side.s)
          /\ SameVerdict(OrderToolOutcome(tool, [args EXCEPT !.side = Str("sell")]))
    /\ InMultiLeg =>
          /\ \A k \in SubmitCalls :
                \A i \in DOMAIN args.legs :
                    /\ args.legs[i].side.t = "str"
                    /\ calls[k].req.legs[i].side = SideFor(args.legs[i].side.s)
          /\ SameVerdict(OrderToolOutcome(tool,
                 [args EXCEPT !.legs = LegsSelling(args.legs)]))

\* C12 witness: a misspelt side was submitted as SELL and the order succeeded.
C12_Witness ==
    /\ Returned
    /\ tool = "place_limit_order"
    /\ args.side = Str("byu")
    /\ Len(calls) = 1
    /\ calls[1].method = "submit_order"
    /\ calls[1].req.side = "SELL"
    /\ GotEnvelope
    /\ result.success

\* every order-placement tool
OrderTools == SideTools \cup {"place_multi_leg_option_order"}

\* the time-in-force the specification assigns to a time_in_force text
TifFor(s) ==
    LET named == {n \in {"GTC", "DAY", "IOC", "FOK", "CLS", "OPG"} :
                     LowerText(s) = LowerText(T(n))}
    IN IF named = {} THEN "GTC" ELSE CHOOSE n \in named : TRUE

\* C13: in every order-placement tool the submitted request's time-in-force is
\* the table entry of the lower-cased time_in_force text when that is one of
\* gtc, day, ioc, fok, cls, opg, and GTC for every other text; and an
\* unrecognized text produces no error envelope: the invocation is accepted or
\* refused exactly as the same invocation with time_in_force "gtc" is.
C13_TimeInForceMapping ==
    (Returned /\ tool \in OrderTools /\ args.time_in_force.t = "str") =>
        /\ \A k \in SubmitCalls :
              calls[k].req.time_in_force = TifFor(args.time_in_force.s)
        /\ SameVerdict(OrderToolOutcome(tool,
               [args EXCEPT !.time_in_force = Str("gtc")]))

\* C13 witness: an unrecognized time_in_force was submitted as GTC and the
\* order succeeded.
C13_Witness ==
    /\ Returned
    /\ tool = "place_market_order"
    /\ args.time_in_force = Str("xyz")
    /\ Len(calls) = 1
    /\ calls[1].method = "submit_order"
    /\ calls[1].req.time_in_force = "GTC"
    /\ GotEnvelope
    /\ result.success

\* the tools whose payload is a list
ListTools ==
    {"get_positions", "get_orders", "get_latest_quotes", "get_stock_bars",
     "get_option_contracts", "get_option_positions"}

\* the tool called the SDK once and the call returned an empty collection
\* (for get_option_contracts: a response holding no contracts)
EmptyReturned ==
    /\ Len(calls) = 1
    /\ ~calls[1].raised
    /\ IF tool = "get_option_contracts"
       THEN calls[1].ret.contracts = <<>>
       ELSE calls[1].ret = <<>>

\* C14: a list-returning tool whose SDK call returns an empty collection
\* answers success=true with the empty list as data: never a failure envelope
\* and never null data.
C14_EmptyListIsSuccess ==
    (Returned /\ tool \in ListTools /\ EmptyReturned) =>
        /\ GotEnvelope
        /\ result.success
        /\ result.data = [t |-> "list", items |-> <<>>]
        /\ IsNone(result.error)

\* C14 witness: get_stock_bars got no bars and answered success=true with the
\* empty list.
C14_Witness ==
    /\ Returned
    /\ tool = "get_stock_bars"
    /\ EmptyReturned
    /\ result.success
    /\ result.data = [t |-> "list", items |-> <<>>]

\* a numeric field of an SDK object that is present with value zero, as a
\* number or as the text of one
IsZero(v) ==
    \/ IsNumber(v) /\ NumSign(v) = 0
    \/ v.t = "str" /\ PyFloat(v).st = "ok" /\ NumSign(PyFloat(v).val) = 0

\* the payload value out tells "not provided" from "zero" for the SDK field
\* src: null for an absent field, zero for a field that is zero
NullAndZeroKept(src, out) ==
    /\ IsNone(src) => IsNone(out)
    /\ IsZero(src) => IsNumber(out) /\ NumSign(out) = 0

\* the invocation succeeded after one SDK call; ret is what the call returned
SucceededOn(t) ==
    /\ Returned
    /\ tool = t
    /\ GotEnvelope
    /\ result.success
    /\ Len(calls) = 1

\* C15 (as stated in the specification): in the payload entities an optional
\* numeric field that is absent in the SDK object is null and never zero, and
\* a field present with value zero is zero, for the AccountInfo market values
\* and margins, Position.qty_available, the Order filled/limit/stop fields and
\* the optional quote and bar fields.
C15_NullAndZeroKept ==
    /\ SucceededOn("get_account_info") =>
          LET src == calls[1].ret
              out == result.data
          IN /\ NullAndZeroKept(src.long_market_value, out.long_market_value)
             /\ NullAndZeroKept(src.short_market_value, out.short_market_value)
             /\ NullAndZeroKept(src.initial_margin, out.initial_margin)
             /\ NullAndZeroKept(src.maintenance_margin, out.maintenance_margin)
    /\ SucceededOn("get_positions") =>
          \A i \in DOMAIN calls[1].ret :
              NullAndZeroKept(calls[1].ret[i].qty_available,
                              result.data.items[i].qty_available)
    /\ SucceededOn("get_orders") =>
          \A i \in DOMAIN calls[1].ret :
              LET src == calls[1].ret[i]
                  out == result.data.items[i]
              IN /\ NullAndZeroKept(src.filled_qty, out.filled_qty)
                 /\ NullAndZeroKept(src.filled_avg_price, out.filled_avg_price)
                 /\ NullAndZeroKept(src.limit_price, out.limit_price)
                 /\ NullAndZeroKept(src.stop_price, out.stop_price)
    /\ SucceededOn("get_latest_quotes") =>
          \A i \in DOMAIN calls[1].ret :
              LET src == calls[1].ret[i]
                  out == result.data.items[i]
              IN /\ NullAndZeroKept(src.bid_price, out.bid_price)
                 /\ NullAndZeroKept(src.ask_price, out.ask_price)
                 /\ NullAndZeroKept(src.bid_size, out.bid_size)
                 /\ NullAndZeroKept(src.ask_size, out.ask_size)
    /\ SucceededOn("get_stock_bars") =>
          \A i \in DOMAIN calls[1].ret :
              LET src == calls[1].ret[i]
                  out == result.data.items[i]
              IN /\ NullAndZeroKept(src.trade_count, out.trade_count)
                 /\ NullAndZeroKept(src.vwap, out.vwap)

\* an SDK that builds every request and returns enum-wrapped fields
ReturningSdk ==
    [ctor |-> "ok", call |-> "return", msg |-> <<>>, shape |-> "echo",
     order |-> None]

\* the field as an enum wrapper carrying the same value
AsEnum(v) == IF v.t = "str" THEN [t |-> "enum", s |-> v.s] ELSE v

\* the SDK position / order with its enum-bearing fields wrapped
PositionWithEnums(pos) == [pos EXCEPT !.side = AsEnum(@)]
OrderWithEnums(o) ==
    [o EXCEPT !.side = AsEnum(@), !.order_type = AsEnum(@),
              !.status = AsEnum(@)]

\* the SDK call of the invocation returned (its object is calls[1].ret)
OneCallReturned(t) ==
    /\ Returned
    /\ tool = t
    /\ Len(calls) = 1
    /\ ~calls[1].raised

\* C16 (as stated in the specification): every tool that reads status, side
\* or order type from an SDK order or position answers with the same envelope
\* whether those fields are enum wrappers or plain values; a plain value never
\* makes the invocation fail.
C16_PlainValuesAccepted ==
    /\ OneCallReturned("get_positions") =>
          result = get_positions(ReturningSdk,
                       [i \in DOMAIN calls[1].ret |->
                           PositionWithEnums(calls[1].ret[i])]).res
    /\ OneCallReturned("get_option_positions") =>
          result = get_option_positions(ReturningSdk,
                       [i \in DOMAIN calls[1].ret |->
                           PositionWithEnums(calls[1].ret[i])]).res
    /\ OneCallReturned("get_orders") =>
          result = get_orders(args, ReturningSdk,
                       [i \in DOMAIN calls[1].ret |->
                           OrderWithEnums(calls[1].ret[i])]).res
    /\ OneCallReturned("get_order") =>
          result = get_order(args, ReturningSdk,
                             OrderWithEnums(calls[1].ret)).res
    /\ (/\ Returned
        /\ tool \in OrderTools \cup {"close_position"}
        /\ args.sdk.shape = "plain") =>
          result = OrderToolOutcome(tool, [args EXCEPT !.sdk.shape = "echo"]).res

\* the positions of the commas of s, and the k-th of them from the left
CommasOf(s) == {i \in 1..Len(s) : <<s[i]>> = T(",")}
NthComma(s, k) ==
    CHOOSE c \in CommasOf(s) : Cardinality({d \in CommasOf(s) : d <= c}) = k

\* the i-th comma-separated item of s: the text between the (i-1)-th and the
\* i-th comma
NthItem(s, i) ==
    LET from == IF i = 1 THEN 1 ELSE NthComma(s, i - 1) + 1
        to == IF i = Cardinality(CommasOf(s)) + 1 THEN Len(s)
              ELSE NthComma(s, i) - 1
    IN SubSeq(s, from, to)

\* the text has no lowercase letter and no whitespace at either end
Normalised(s) ==
    /\ \A i \in 1..Len(s) : UpperChar(s[i]) = <<s[i]>>
    /\ Len(s) > 0 => ~IsSpace(s[1]) /\ ~IsSpace(s[Len(s)])

\* C17: get_latest_quotes and get_stock_bars hand the SDK a symbol list with
\* one entry per comma-separated item of the symbols text, in input order,
\* each entry being the item trimmed and upper-cased; no lowercase letter and
\* no surrounding whitespace reaches the SDK.
C17_SymbolsNormalised ==
    (/\ Returned
     /\ tool \in {"get_latest_quotes", "get_stock_bars"}
     /\ args.symbols.t = "str") =>
        \A k \in DOMAIN calls :
            LET sent == calls[k].req.symbol_or_symbols.items
            IN /\ Len(sent) = Cardinality(CommasOf(args.symbols.s)) + 1
               /\ \A i \in DOMAIN sent :
                     /\ sent[i] = UpperText(StripText(NthItem(args.symbols.s, i)))
                     /\ Normalised(sent[i])

\* C17 witness: "aapl, msft" reached the SDK as AAPL, MSFT.
C17_Witness ==
    /\ Returned
    /\ tool = "get_latest_quotes"
    /\ args.symbols = Str("aapl, msft")
    /\ Len(calls) = 1
    /\ calls[1].req.symbol_or_symbols.items = <<T("AAPL"), T("MSFT")>>
    /\ result.success

InStopLimit == Returned /\ tool = "place_stop_limit_order"

\* C18: place_stop_limit_order with positive qty, stop_price and limit_price
\* (side and time_in_force texts, the request object accepted by the SDK)
\* submits one request carrying exactly those stop and limit prices; when the
\* SDK returns the order that carries them, the tool returns success=true and
\* the payload's stop_price and limit_price equal the arguments.
C18_StopLimitRoundTrip ==
    (/\ InStopLimit
     /\ Positive(args.qty)
     /\ Positive(args.stop_price)
     /\ Positive(args.limit_price)) =>
        /\ \A k \in SubmitCalls :
              /\ calls[k].req.stop_price = args.stop_price
              /\ calls[k].req.limit_price = args.limit_price
        /\ (/\ args.side.t = "str"
            /\ args.time_in_force.t = "str"
            /\ args.sdk.ctor = "ok") => Cardinality(SubmitCalls) = 1
        /\ SdkEchoed =>
              /\ GotEnvelope
              /\ result.success
              /\ SameValue(result.data.stop_price, args.stop_price)
              /\ SameValue(result.data.limit_price, args.limit_price)

\* C18 witness: a stop-limit order with a stop price differing from its limit
\* price succeeded and the payload holds each price in its own field.
C18_Witness ==
    /\ InStopLimit
    /\ args.stop_price = Num(2)
    /\ args.limit_price = Num(1)
    /\ SdkEchoed
    /\ result.success
    /\ result.data.stop_price = Flt(2)
    /\ result.data.limit_price = Flt(1)

\* construction has run and found a credential unset or empty
CredentialMissing == pc # "main" /\ (~Truthy(api_key) \/ ~Truthy(secret_key))

\* how often, and where first, an event occurs in the startup order
TimesBuilt(e) == Cardinality({i \in DOMAIN startup : startup[i] = e})
FirstAt(e) == CHOOSE i \in DOMAIN startup : startup[i] = e

\* C19: startup fails fast.  When ALPACA_API_KEY or ALPACA_SECRET_KEY is unset
\* or empty, construction raises and the process exits with a non-zero status
\* before either SDK client is constructed, before any tool is registered and
\* before the transport is started.  When both are set, each client is
\* constructed exactly once and before any tool is registered, and tools are
\* served only after that.
C19_StartupFailsFast ==
    /\ CredentialMissing =>
          /\ pc = "exited"
          /\ IsNumber(exit_code) /\ NumSign(exit_code) # 0
          /\ IsNone(trading_client)
          /\ IsNone(data_client)
          /\ app_tools = {}
          /\ startup = <<>>
    /\ (pc # "main" /\ ~CredentialMissing) =>
          /\ pc # "exited" /\ IsNone(exit_code)
          /\ TimesBuilt("TradingClient") <= 1
          /\ TimesBuilt("StockHistoricalDataClient") <= 1
          /\ (app_tools # {} \/ TimesBuilt("register_tools") > 0) =>
                /\ TimesBuilt("TradingClient") = 1
                /\ TimesBuilt("StockHistoricalDataClient") = 1
                /\ TimesBuilt("register_tools") = 1
                /\ FirstAt("TradingClient") < FirstAt("register_tools")
                /\ FirstAt("StockHistoricalDataClient") < FirstAt("register_tools")
                /\ trading_client.cls = "TradingClient"
                /\ data_client.cls = "StockHistoricalDataClient"
          /\ TimesBuilt("run") > 0 =>
                /\ TimesBuilt("run") = 1
                /\ FirstAt("register_tools") < FirstAt("run")
          /\ pc \in {"idle", "returned"} =>
                app_tools = ToolNames /\ TimesBuilt("run") = 1

\* C19 witness: the key was set to the empty text; the process has exited
\* with status 1 and nothing was built.
C19_Witness ==
    /\ pc = "exited"
    /\ api_key = Str("")
    /\ Truthy(secret_key)
    /\ exit_code = Num(1)
    /\ startup = <<>>

\* the call in slot i has returned
Done(i) == inflight[i].pc = "done"

\* what the call inv returns when it is the only call the server runs: its
\* body from entry to return, with the SDK answering as scripted for it
Alone(inv) ==
    LET Picked(exercised, other) ==
            IF inv.tool = "exercise_option_position" THEN exercised ELSE other
    IN Picked(exercise_option_position(inv.args, inv.sdk, inv.sdk2, inv.positions),
              ToolOutcome(inv.tool, inv.args, inv.sdk))

InExercise == Returned /\ tool = "exercise_option_position"

\* the calls of the SDK's exercise_options_position in this invocation
ExerciseCalls ==
    {k \in DOMAIN calls : calls[k].method = "exercise_options_position"}

\* two symbols are equal: the same text, or numbers of the same value (5 and
\* 5.0); nan is equal to nothing, itself included, and no text to a number
EqualSymbols(x, y) ==
    \/ x.t = "str" /\ y.t = "str" /\ x.s = y.s
    \/ \E n \in 0..9 : {x, y} \subseteq {Num(n), Flt(n)}

\* the positions held at the brokerage whose symbol equals the requested one
Matching ==
    {i \in DOMAIN args.positions :
        EqualSymbols(args.positions[i].symbol, args.symbol)}

\* the quantity to exercise: qty when supplied, else the whole of the first
\* matching position (the brokerage gives a position's quantity as text)
ExerciseQty ==
    IF ~IsNone(args.qty) THEN args.qty
    ELSE PyFloat(args.positions[Least(Matching)].qty).val

\* C21: exercise_option_position calls exercise_options_position only after
\* get_all_positions has returned a position with the requested symbol; with
\* no such position it returns success=false, "No position found for
\* <symbol>", without that call; the quantity passed to the SDK and echoed as
\* exercised_qty is qty when supplied, else the matched position's quantity.
C21_ExerciseAfterLookup ==
    InExercise =>
        /\ \A k \in ExerciseCalls :
              /\ k = 2
              /\ calls[1].method = "get_all_positions"
              /\ ~calls[1].raised
              /\ \E i \in DOMAIN calls[1].ret :
                    EqualSymbols(calls[1].ret[i].symbol, args.symbol)
              /\ calls[k].req.symbol = args.symbol
              /\ SameValue(calls[k].req.qty, ExerciseQty)
        /\ (~calls[1].raised /\ Matching = {}) =>
              /\ GotEnvelope
              /\ ~result.success
              /\ result.error = Text(T("No position found for ") \o args.symbol.s)
              /\ ExerciseCalls = {}
        /\ (GotEnvelope /\ result.success) =>
              /\ ExerciseCalls = {2}
              /\ SameValue(result.data.exercised_qty, ExerciseQty)

\* C21 witness: no qty supplied, the requested symbol is the second position
\* held, and the whole position (10 contracts) was exercised and echoed.
C21_Witness ==
    /\ InExercise
    /\ IsNone(args.qty)
    /\ Len(args.positions) = 2
    /\ args.positions[1].symbol # args.symbol
    /\ args.positions[2].symbol = args.symbol
    /\ ExerciseCalls = {2}
    /\ calls[2].req.qty = Flt(10)
    /\ result.success
    /\ result.data.exercised_qty = Flt(10)

\* C21 witness: the symbol 5 is requested while the brokerage holds a position
\* under nan and one under 5.0; the second one is exercised.
C21_WitnessNumbers ==
    /\ InExercise
    /\ args.symbol = Num(5)
    /\ Len(args.positions) = 2
    /\ args.positions[1].symbol.s = T("nan")
    /\ args.positions[2].symbol = Flt(5)
    /\ Matching = {2}
    /\ ExerciseCalls = {2}
    /\ result.success

\* C21 witness: nan is requested and the brokerage holds a position under
\* nan: no position is found.
C21_WitnessNan ==
    /\ InExercise
    /\ args.symbol.s = T("nan")
    /\ Len(args.positions) = 1
    /\ args.positions[1].symbol = args.symbol
    /\ Matching = {}
    /\ ExerciseCalls = {}
    /\ FailedWith(T("No position found for nan"))

\* get_option_positions ended and its get_all_positions call returned
OptionPositionsListed ==
    /\ Returned
    /\ tool = "get_option_positions"
    /\ ~calls[1].raised

\* an asset class that names an option: the value "us_option" (as text or
\* as the SDK's enum member) or a text containing "option" in any case; an
\* absent or null asset class does not
NamesOption(pos) ==
    \/ pos.asset_class.t \in {"str", "enum"} /\ pos.asset_class.s = T("us_option")
    \/ /\ pos.asset_class.t = "str"
       /\ Contains(LowerText(pos.asset_class.s), T("option"))

\* C22 as stated: get_option_positions returns, in source order, exactly the
\* positions of get_all_positions whose asset_class is "us_option" or contains
\* "option" in any case; a position with another or an absent asset_class is
\* not in the payload.
C22_OnlyOptionPositions ==
    OptionPositionsListed =>
        LET kept == SelectSeq(calls[1].ret, NamesOption)
        IN /\ GotEnvelope
           /\ result.success
           /\ Len(result.data.items) = Len(kept)
           /\ \A i \in DOMAIN kept :
                 /\ result.data.items[i].symbol = kept[i].symbol
                 /\ result.data.items[i].side.s = kept[i].side.s

\* the position can be converted: its symbol is a text and none of its
\* number fields is null
Convertible(pos) ==
    /\ pos.symbol.t \in {"str", "enum"}
    /\ \A f \in {"qty", "market_value", "cost_basis", "unrealized_pl",
                  "unrealized_plpc"} : ~IsNone(pos[f])

\* C22: get_option_positions converts exactly the positions of
\* get_all_positions whose asset_class is "us_option" or contains "option" in
\* any case.  When each of them can be converted the tool returns them, in
\* source order, with success=true; when one of them cannot (a null
\* market_value, a symbol that is not a text) it returns success=false
\* without a payload.  A position with another or an absent asset_class is
\* in no payload and does not make the listing fail.
C22_OptionPositionsThatConvert ==
    OptionPositionsListed =>
        LET kept == SelectSeq(calls[1].ret, NamesOption)
        IN /\ GotEnvelope
           /\ result.success <=> \A i \in DOMAIN kept : Convertible(kept[i])
           /\ result.success =>
                 /\ Len(result.data.items) = Len(kept)
                 /\ \A i \in DOMAIN kept :
                       /\ result.data.items[i].symbol = kept[i].symbol
                       /\ result.data.items[i].side.s = kept[i].side.s
           /\ ~result.success => (IsNone(result.data) /\ ~IsNone(result.error))

\* C22 witness: an equity position whose symbol is null comes before an
\* "US_OPTION" call; the payload holds the call only.
C22_Witness ==
    /\ OptionPositionsListed
    /\ Len(calls[1].ret) = 2
    /\ calls[1].ret[1].asset_class = Str("us_equity")
    /\ IsNone(calls[1].ret[1].symbol)
    /\ calls[1].ret[2].asset_class = Str("US_OPTION")
    /\ calls[1].ret[2].symbol = Str(CallSym)
    /\ result.success
    /\ Len(result.data.items) = 1
    /\ result.data.items[1].symbol = Str(CallSym)

\* C22 witness: the fixture's call comes before an option position whose
\* market_value is null; the listing fails on float(None).
C22_WitnessNullValue ==
    /\ OptionPositionsListed
    /\ Len(calls[1].ret) = 2
    /\ calls[1].ret[1] = mock_option_position
    /\ NamesOption(calls[1].ret[2])
    /\ IsNone(calls[1].ret[2].market_value)
    /\ FailedWith(T("float() argument must be a string or a real number"))

\* the magnitude of a number
Magnitude(v) == IF v.s[1] = 45 THEN [v EXCEPT !.s = Tail(@)] ELSE v

\* the leg request the specification asks for an input leg (the ratio as a
\* floating-point number)
LegRequestFor(leg) ==
    [symbol |-> leg.symbol, ratio_qty |-> PyFloat(leg.ratio_qty).val,
     side |-> SideFor(leg.side.s),
     position_intent |-> [t |-> "enum", s |-> LowerText(leg.position_intent.s)]]

\* C23: the request place_multi_leg_option_order submits holds one leg
\* request per input leg, in input order, each with its leg's side and
\* intent; its quantity is the magnitude of the first leg's ratio_qty, its
\* symbol the first leg's symbol and its side BUY whatever the legs' sides;
\* on success the payload's legs count is the number of input legs.
C23_MultiLegAggregate ==
    InMultiLeg =>
        /\ \A k \in SubmitCalls :
              /\ Len(calls[k].req.legs) = Len(args.legs)
              /\ \A i \in DOMAIN args.legs :
                    calls[k].req.legs[i] = LegRequestFor(args.legs[i])
              /\ calls[k].req.qty = Magnitude(args.legs[1].ratio_qty)
              /\ calls[k].req.symbol = args.legs[1].symbol
              /\ calls[k].req.side = "BUY"
              /\ calls[k].req.order_class = "mleg"
        /\ (GotEnvelope /\ result.success) =>
              /\ Cardinality(SubmitCalls) = 1
              /\ result.data.legs = Len(args.legs)

\* C23 witness: a put sold at ratio -2 followed by a call bought at ratio 1;
\* the submitted order is a BUY of 2 on the put's symbol with both legs in
\* order, and the payload counts 2 legs.
C23_Witness ==
    /\ InMultiLeg
    /\ Len(args.legs) = 2
    /\ args.legs[1] = Leg(Str("AAPL240119P00180000"), Num(-2), Str("Sell"), Str("sell_to_close"))
    /\ args.legs[2] = Leg(Str(CallSym), Num(1), Str("buy"), Str("Buy_To_Open"))
    /\ Len(calls) = 1
    /\ calls[1].req.qty = Num(2)
    /\ calls[1].req.symbol = Str("AAPL240119P00180000")
    /\ calls[1].req.side = "BUY"
    /\ calls[1].req.legs[1].side = "SELL"
    /\ calls[1].req.legs[2].side = "BUY"
    /\ result.success
    /\ result.data.legs = 2

\* place_bracket_order or place_oco_order ended
InBracketOrOco == Returned /\ tool \in {"place_bracket_order", "place_oco_order"}

\* C24: in every request place_bracket_order and place_oco_order submit, the
\* stop_loss sub-object carries stop_price = stop_loss_stop_price and has a
\* limit_price exactly when stop_loss_limit_price was supplied (then equal to
\* it); the take_profit sub-object carries limit_price =
\* take_profit_limit_price; and the OCO request's own limit_price is
\* take_profit_limit_price.
C24_ExitLegs ==
    InBracketOrOco =>
        \A k \in SubmitCalls :
            /\ calls[k].req.stop_loss.stop_price = args.stop_loss_stop_price
            /\ IF IsNone(args.stop_loss_limit_price)
               THEN calls[k].req.stop_loss.limit_price = Missing
               ELSE calls[k].req.stop_loss.limit_price = args.stop_loss_limit_price
            /\ calls[k].req.take_profit.limit_price = args.take_profit_limit_price
            /\ tool = "place_oco_order" =>
                  calls[k].req.limit_price = args.take_profit_limit_price

\* C24 witness: an OCO order with take profit 2, stop 1 and no stop-loss limit
\* was submitted with a stop_loss of stop_price 1 only and limit price 2.
C24_Witness ==
    /\ Returned
    /\ tool = "place_oco_order"
    /\ args.take_profit_limit_price = Num(2)
    /\ args.stop_loss_stop_price = Num(1)
    /\ IsNone(args.stop_loss_limit_price)
    /\ Len(calls) = 1
    /\ calls[1].req.stop_loss.stop_price = Num(1)
    /\ calls[1].req.stop_loss.limit_price = Missing
    /\ calls[1].req.take_profit.limit_price = Num(2)
    /\ calls[1].req.limit_price = Num(2)

\* C24 witness for the stop-limit variant: a bracket order with take profit 1,
\* stop 1 and stop-loss limit 2 was submitted with both stop-loss prices.
C24_WitnessStopLimit ==
    /\ Returned
    /\ tool = "place_bracket_order"
    /\ args.take_profit_limit_price = Num(1)
    /\ args.stop_loss_limit_price = Num(2)
    /\ Len(calls) = 1
    /\ calls[1].req.stop_loss.stop_price = Num(1)
    /\ calls[1].req.stop_loss.limit_price = Num(2)
    /\ calls[1].req.take_profit.limit_price = Num(1)

\* the get_option_contracts requests sent upstream in this invocation
ContractsCalls ==
    IF Returned /\ tool = "get_option_contracts"
    THEN {k \in DOMAIN calls : calls[k].method = "get_option_contracts"}
    ELSE {}

\* the filters of get_option_contracts: the argument and its request key
ContractFilters ==
    {<<"underlying_symbols", "underlying_symbols">>,
     <<"expiration_date", "expiration_date">>,
     <<"expiration_date_gte", "expiration_date_gte">>,
     <<"expiration_date_lte", "expiration_date_lte">>,
     <<"root_symbol", "root_symbol">>, <<"contract_type", "type">>,
     <<"style", "style">>, <<"strike_price_gte", "strike_price_gte">>,
     <<"strike_price_lte", "strike_price_lte">>}

\* C25: the keyword set of the upstream get_option_contracts request holds
\* limit, equal to the caller's limit capped at 1000, and a key for exactly
\* the filters the caller supplied (a non-empty value); a filter not supplied
\* is absent, and no key, an unrecognized contract_type or style included, is
\* present with a null value.
C25_SparseActiveFilters ==
    \A k \in ContractsCalls :
        /\ calls[k].req.limit = (IF args.limit < 1000 THEN args.limit ELSE 1000)
        /\ \A f \in ContractFilters :
              /\ (calls[k].req[f[2]] # Missing) <=> Truthy(args[f[1]])
              /\ ~IsNone(calls[k].req[f[2]])

\* get_option_contracts ended and its upstream call returned a response
ContractsFetched ==
    /\ ContractsCalls = {1}
    /\ ~calls[1].raised

\* the contract list the specification reads from a response: the named
\* attribute first, then the first element of a tuple (nothing for an empty
\* tuple), then the list itself, else nothing
FlatContracts(response) ==
    IF response.shape \in {"attr", "named_tuple"}
    THEN (IF response.shape = "attr" THEN response.contracts
          ELSE response.option_contracts)
    ELSE IF response.shape = "tuple" THEN response.contracts
    ELSE IF response.shape = "list" THEN response.contracts
    ELSE <<>>

\* an element parse_option_contract recognizes: an object with a symbol
\* attribute or a dict
Recognizable(c) == c.kind \in {"obj", "dict"}

\* C26: get_option_contracts takes the contract list from the response by
\* the first applicable shape (option_contracts attribute, then tuple, then
\* list, else empty) and in every case returns success=true with one parsed
\* contract per recognizable element, in order.
C26_ResponseNormalised ==
    ContractsFetched =>
        LET kept == SelectSeq(FlatContracts(calls[1].ret), Recognizable)
        IN /\ GotEnvelope
           /\ result.success
           /\ Len(result.data.items) = Len(kept)
           /\ \A i \in DOMAIN kept :
                 result.data.items[i].symbol =
                     (IF kept[i].symbol = Missing THEN Str("") ELSE kept[i].symbol)

\* C26 witness: a tuple whose first element holds a put and whose
\* option_contracts attribute holds a call; the payload is the call.
C26_Witness ==
    /\ ContractsFetched
    /\ calls[1].ret.shape = "named_tuple"
    /\ calls[1].ret.option_contracts # <<>>
    /\ result.success
    /\ Len(result.data.items) = 1
    /\ result.data.items[1].symbol = Str(CallSym)

\* the option positions of a successful get_option_positions payload
OptionItems ==
    IF Returned /\ tool = "get_option_positions" /\ GotEnvelope /\ result.success
    THEN result.data.items
    ELSE <<>>

\* the symbol text s has at least 15 characters and ch as its 9th character
\* from the end
TypeCharIs(s, ch) == Len(s) >= 15 /\ <<s[Len(s) - 8]>> = T(ch)

\* the first option position get_all_positions returned that cannot be
\* converted, if its symbol is not a text: <<symbol>>, else <<>>
NoTextSymbol ==
    LET kept == IF OptionPositionsListed
                THEN SelectSeq(calls[1].ret, NamesOption) ELSE <<>>
        failing == {i \in DOMAIN kept : ~Convertible(kept[i])}
    IN IF failing # {} /\ kept[Least(failing)].symbol.t # "str"
       THEN <<kept[Least(failing)].symbol>> ELSE <<>>

\* C27: get_option_positions infers contract_type from the symbol text only:
\* CALL iff the symbol has at least 15 characters and its 9th character from
\* the end is 'C', PUT iff it has at least 15 characters and that character
\* is 'P', null otherwise (every symbol shorter than 15 characters included).
\* A symbol that is not a text has no length: the listing ends with the
\* TypeError of len() and nothing is inferred.
C27_ContractTypeFromSymbol ==
    /\ \A i \in DOMAIN OptionItems :
          LET s == OptionItems[i].symbol.s
              ct == OptionItems[i].contract_type
          IN /\ OptionItems[i].symbol.t = "str"
             /\ (ct = Enum("call")) <=> TypeCharIs(s, "C")
             /\ (ct = Enum("put")) <=> TypeCharIs(s, "P")
             /\ IsNone(ct) <=> (~TypeCharIs(s, "C") /\ ~TypeCharIs(s, "P"))
    /\ NoTextSymbol # <<>> =>
          /\ Failed
          /\ result.error =
                Text(T("object of type '")
                     \o T(IF IsNone(NoTextSymbol[1]) THEN "NoneType" ELSE "int")
                     \o T("' has no len()"))

\* C27 witness: an option position whose symbol is the number 5 is listed
\* and the tool answers with the TypeError.
C27_WitnessNoText ==
    /\ Len(NoTextSymbol) = 1
    /\ NoTextSymbol[1] = Num(5)
    /\ FailedWith(T("object of type 'int' has no len()"))

\* C27 witness: a 15-character put symbol decoded as PUT next to a
\* 14-character symbol with 'C' in the type place decoded as null.
C27_Witness ==
    /\ Len(OptionItems) = 2
    /\ OptionItems[1].symbol = Str("AAPL24P00175000")
    /\ OptionItems[1].contract_type = Enum("put")
    /\ OptionItems[2].symbol = Str("AAPL2C00175000")
    /\ IsNone(OptionItems[2].contract_type)

\* C28: in every order-placement tool (stock, bracket, OCO, option and
\* multi-leg), an invocation that returns success=false has no submit_order
\* call that returned: an order accepted by the brokerage is reported with
\* success=true, whatever the shape of the returned order (null prices, plain
\* side and status included).
C28_AcceptedOrderReported ==
    (/\ Returned
     /\ tool \in OrderTools \ {"close_position"}
     /\ GotEnvelope
     /\ ~result.success) =>
        \A k \in SubmitCalls : calls[k].raised

\* the trading client has been constructed
ClientBuilt == trading_client # None

\* ALPACA_PAPER is unset or spells "true" in some case
PaperRequested ==
    IsNone(alpaca_paper) \/ alpaca_paper.s \in {T("true"), T("TRUE"), T("True")}

\* C29: the trading client is constructed in paper mode if and only if
\* ALPACA_PAPER is unset or equals "true" ignoring case; every other value
\* ("1", "yes", the empty text) constructs a live-trading client; and with
\* the variable unset and both credentials set, startup does not fail.
C29_PaperModeOnlyForTrue ==
    /\ ClientBuilt => (trading_client.paper <=> PaperRequested)
    /\ (/\ IsNone(alpaca_paper)
        /\ pc # "main"
        /\ ~CredentialMissing) => (pc # "exited" /\ IsNone(exit_code))

\* C29 witness: ALPACA_PAPER is "yes" and the server runs with a live-trading
\* client.
C29_Witness ==
    /\ alpaca_paper = Str("yes")
    /\ pc = "idle"
    /\ ClientBuilt
    /\ ~trading_client.paper

\* C29 witness for the default: ALPACA_PAPER is unset and the server runs
\* with a paper-trading client.
C29_WitnessUnset ==
    /\ IsNone(alpaca_paper)
    /\ pc = "idle"
    /\ ClientBuilt
    /\ trading_client.paper

\* place_bracket_order ended and its validation had passed: the outcome is
\* neither a validation failure nor an exception raised by a check
BracketValidated ==
    /\ Returned
    /\ tool = "place_bracket_order"
    /\ result.site \notin {"validation", "propagated"}

\* C30: once validation passes, place_bracket_order submits a market-entry
\* bracket request iff entry_type is "market" ignoring case; every other
\* entry_type text submits a limit-entry bracket request whose limit price is
\* entry_limit_price (null when none was supplied, which validation allows
\* for a text that is neither "market" nor "limit"); and when the SDK builds
\* the request object, exactly one submit_order call is made in either case.
C30_BracketEntryKind ==
    BracketValidated =>
        /\ \A k \in SubmitCalls :
              /\ calls[k].req.order_class = "bracket"
              /\ IF LowerText(args.entry_type.s) = T("market")
                 THEN /\ calls[k].req.cls = "MarketOrderRequest"
                      /\ IsNone(calls[k].req.limit_price)
                 ELSE /\ calls[k].req.cls = "LimitOrderRequest"
                      /\ calls[k].req.limit_price = args.entry_limit_price
        /\ args.sdk.ctor = "ok" => Cardinality(SubmitCalls) = 1
        /\ args.sdk.ctor # "ok" => SubmitCalls = {}

\* C30 witness: entry_type "stop" without an entry price was submitted as a
\* limit-entry bracket request with a null limit price, in one call.
C30_Witness ==
    /\ BracketValidated
    /\ args.entry_type = Str("stop")
    /\ IsNone(args.entry_limit_price)
    /\ Len(calls) = 1
    /\ calls[1].method = "submit_order"
    /\ calls[1].req.cls = "LimitOrderRequest"
    /\ IsNone(calls[1].req.limit_price)

\* C30 witness for the market entry: entry_type "Market" was submitted as a
\* market-entry bracket request and the order succeeded.
C30_WitnessMarket ==
    /\ BracketValidated
    /\ args.entry_type = Str("Market")
    /\ Len(calls) = 1
    /\ calls[1].req.cls = "MarketOrderRequest"
    /\ result.success

====
